---- MODULE Spec2Model ----
(***************************************************************************)
(* Model of the quotation service of the ASP Cranes CRM                    *)
(* (services/quotationService: calculateTotalRent, createQuotation and     *)
(* the read accessors over the Firestore quotations and deals              *)
(* collections).                                                           *)
(*                                                                         *)
(* JavaScript values are encoded as follows.                               *)
(*   - An optional property is a sequence: <<>> when the property is       *)
(*     absent (undefined), <<v>> when it is present with value v.          *)
(*   - A JavaScript number produced by arithmetic is an exact rational     *)
(*     <<n, d>> in lowest terms with d > 0; NaN is <<0, 0>>.  IEEE-754     *)
(*     rounding is not modelled: arithmetic is exact.                      *)
(***************************************************************************)
EXTENDS Integers, Sequences, FiniteSets, TLC

----------------------------------------------------------------------------
(* Optional properties                                                     *)

None == <<>>
Some(x) == <<x>>

\* JavaScript truthiness of an optional number: absent and 0 are falsy.
TruthyNum(o) == o # None /\ o[1] # 0
\* JavaScript truthiness of an optional string: absent and "" are falsy.
TruthyStr(o) == o # None /\ o[1] # ""
\* JavaScript truthiness of an optional boolean.
TruthyBool(o) == o # None /\ o[1]

----------------------------------------------------------------------------
(* Numbers: exact rationals and NaN                                        *)

NaN == <<0, 0>>
IsNaN(x) == x[2] = 0

Abs(n) == IF n < 0 THEN -n ELSE n

RECURSIVE GCD(_, _)
GCD(a, b) == IF b = 0 THEN a ELSE GCD(b, a % b)

\* The rational n/d (d # 0) in lowest terms with a positive denominator.
Norm(n, d) ==
  LET g == GCD(Abs(n), Abs(d))
      s == IF d < 0 THEN -1 ELSE 1
  IN <<(s * n) \div g, (s * d) \div g>>

Num(n) == <<n, 1>>
Zero == Num(0)

Add(x, y) ==
  IF IsNaN(x) \/ IsNaN(y) THEN NaN
  ELSE LET g == GCD(x[2], y[2])
       IN Norm(x[1] * (y[2] \div g) + y[1] * (x[2] \div g), (x[2] \div g) * y[2])

Neg(x) == IF IsNaN(x) THEN NaN ELSE <<-x[1], x[2]>>
Sub(x, y) == Add(x, Neg(y))

Mul(x, y) ==
  IF IsNaN(x) \/ IsNaN(y) THEN NaN
  ELSE LET g1 == GCD(Abs(x[1]), y[2])
           g2 == GCD(Abs(y[1]), x[2])
       IN Norm((x[1] \div g1) * (y[1] \div g2), (x[2] \div g2) * (y[2] \div g1))

\* Division by a non-zero number; the divisors of the program (26 and
\* workingHours, which is never 0 after "|| 8") are non-zero.
Div(x, y) ==
  IF IsNaN(x) \/ IsNaN(y) \/ y[1] = 0 THEN NaN
  ELSE Mul(x, Norm(y[2], y[1]))

\* An optional numeric property used directly in arithmetic:
\* undefined becomes NaN.
NumOf(o) == IF o = None THEN NaN ELSE Num(o[1])

\* Variant: Number(o) without a default, an absent property becomes NaN.
NumberOr_noDefault(o, dflt) == IF o = None THEN NaN ELSE Num(o[1])

\* Number(o || dflt)
NumberOr(o, dflt) == IF TruthyNum(o) THEN Num(o[1]) ELSE Num(dflt)

RECURSIVE SumSeq(_)
SumSeq(s) == IF s = <<>> THEN Zero ELSE Add(s[1], SumSeq(Tail(s)))

----------------------------------------------------------------------------
(* calculateTotalRent                                                      *)

MonthlyThreshold == 25
MonthDays == 26
DefaultWorkingHours == 8
FoodMonthly == 2500
AccomMonthly == 4000

\* quotationData.selectedMachines && quotationData.selectedMachines.length > 0
hasMachines(q) == q.selectedMachines # None /\ Len(q.selectedMachines[1]) > 0

\* The machines the forEach loops run over (only used when hasMachines).
Machines(q) == q.selectedMachines[1]

\* A null / undefined entry of selectedMachines: reading machine.baseRate
\* raises a TypeError inside the try block.
Throws(q) == hasMachines(q) /\ \E i \in 1..Len(Machines(q)) : Machines(q)[i] = None

days(q) == Num(q.numberOfDays[1])
\* Variant: the monthly boundary taken one day early (>= 25).
isMonthly_from25(q) == q.numberOfDays[1] >= MonthlyThreshold

isMonthly(q) == q.numberOfDays[1] > MonthlyThreshold
effectiveDays(q) == IF isMonthly(q) THEN Num(MonthDays) ELSE days(q)
workingHours(q) == NumberOr(q.workingHours, DefaultWorkingHours)
shiftMultiplier(q) == IF q.shift = Some("double") THEN Num(2) ELSE Num(1)

\* quotationData.selectedEquipment?.baseRates is truthy
hasBaseRates(q) == q.selectedEquipment # None /\ q.selectedEquipment[1].baseRates # None

\* quotationData.selectedEquipment.baseRates[quotationData.orderType]
tierRate(q) ==
  IF q.orderType = None THEN NaN
  ELSE NumOf(q.selectedEquipment[1].baseRates[1][q.orderType[1]])

\* Cost of one rate: the monthly path converts to an hourly rate first.
\* Variant: the monthly path multiplies by the actual number of days.
rateCost_actualDays(q, rate) ==
  IF isMonthly(q)
  THEN LET hourlyRate == Div(Div(rate, Num(MonthDays)), workingHours(q))
       IN Mul(Mul(Mul(hourlyRate, workingHours(q)), days(q)), shiftMultiplier(q))
  ELSE Mul(Mul(Mul(rate, workingHours(q)), effectiveDays(q)), shiftMultiplier(q))

rateCost(q, rate) ==
  IF isMonthly(q)
  THEN LET hourlyRate == Div(Div(rate, Num(MonthDays)), workingHours(q))
       IN Mul(Mul(Mul(hourlyRate, workingHours(q)), effectiveDays(q)), shiftMultiplier(q))
  ELSE Mul(Mul(Mul(rate, workingHours(q)), effectiveDays(q)), shiftMultiplier(q))

\* Variant: the cost of a machine taken once, whatever its quantity.
machineCost_unitQuantity(q, m) == rateCost(q, NumOf(m.baseRate))

machineCost(q, m) == Mul(rateCost(q, NumOf(m.baseRate)), NumOf(m.quantity))

workingCost(q) ==
  IF hasMachines(q)
  THEN SumSeq([i \in 1..Len(Machines(q)) |-> machineCost(q, Machines(q)[i][1])])
  ELSE IF hasBaseRates(q) THEN rateCost(q, tierRate(q))
  ELSE Zero

usagePercentage(q) == IF q.usage = Some("heavy") THEN Norm(10, 100) ELSE Norm(5, 100)

\* Variant: the usage load of a machine taken once, whatever its quantity.
usageLoadFactor_unitQuantity(q) ==
  IF hasMachines(q)
  THEN SumSeq([i \in 1..Len(Machines(q)) |->
         Mul(NumOf(Machines(q)[i][1].baseRate), usagePercentage(q))])
  ELSE IF hasBaseRates(q) THEN Mul(tierRate(q), usagePercentage(q))
  ELSE Zero

usageLoadFactor(q) ==
  IF hasMachines(q)
  THEN SumSeq([i \in 1..Len(Machines(q)) |->
         Mul(Mul(NumOf(Machines(q)[i][1].baseRate), NumOf(Machines(q)[i][1].quantity)),
             usagePercentage(q))])
  ELSE IF hasBaseRates(q) THEN Mul(tierRate(q), usagePercentage(q))
  ELSE Zero

foodDailyRate == Norm(FoodMonthly, MonthDays)
accomDailyRate == Norm(AccomMonthly, MonthDays)

\* Variant: food and accommodation charged once per machine unit.
foodAccomCost_perUnit(q) ==
  LET monthly == Add(Mul(NumberOr(q.foodResources, 0), Num(FoodMonthly)),
                     Mul(NumberOr(q.accomResources, 0), Num(AccomMonthly)))
      cost == IF isMonthly(q) THEN monthly
              ELSE Mul(Add(Mul(NumberOr(q.foodResources, 0), foodDailyRate),
                           Mul(NumberOr(q.accomResources, 0), accomDailyRate)),
                       effectiveDays(q))
  IN IF hasMachines(q)
     THEN Mul(cost, SumSeq([i \in 1..Len(Machines(q)) |-> NumOf(Machines(q)[i][1].quantity)]))
     ELSE cost

foodAccomCost(q) ==
  IF isMonthly(q)
  THEN Add(Mul(NumberOr(q.foodResources, 0), Num(FoodMonthly)),
           Mul(NumberOr(q.accomResources, 0), Num(AccomMonthly)))
  ELSE Mul(Add(Mul(NumberOr(q.foodResources, 0), foodDailyRate),
               Mul(NumberOr(q.accomResources, 0), accomDailyRate)),
           effectiveDays(q))

distance(q) == NumberOr(q.siteDistance, 0)
trailerCost(q) == NumberOr(q.mobDemob, 0)
mobRelaxationPercent(q) == NumberOr(q.mobRelaxation, 0)

\* machine.runningCostPerKm || 0  and  quotationData.runningCostPerKm || 0
runningCostPerKm(o) == NumberOr(o, 0)

\* Variant: the per-machine distance cost taken from the quotation's own
\* runningCostPerKm instead of the machine's.
machineMobDemobCost_topLevelRate(q, m) ==
  LET distToSiteCost ==
        Mul(Mul(Mul(distance(q), runningCostPerKm(q.runningCostPerKm)), Num(2)),
            NumOf(m.quantity))
      mobRelaxationAmount == Div(Mul(distToSiteCost, mobRelaxationPercent(q)), Num(100))
  IN Add(Sub(distToSiteCost, mobRelaxationAmount), Mul(trailerCost(q), NumOf(m.quantity)))

\* Variant: the trailer fee charged once per machine entry, whatever its
\* quantity.
machineMobDemobCost_flatTrailer(q, m) ==
  LET distToSiteCost ==
        Mul(Mul(Mul(distance(q), runningCostPerKm(m.runningCostPerKm)), Num(2)),
            NumOf(m.quantity))
      mobRelaxationAmount == Div(Mul(distToSiteCost, mobRelaxationPercent(q)), Num(100))
  IN Add(Sub(distToSiteCost, mobRelaxationAmount), trailerCost(q))

machineMobDemobCost(q, m) ==
  LET distToSiteCost ==
        Mul(Mul(Mul(distance(q), runningCostPerKm(m.runningCostPerKm)), Num(2)),
            NumOf(m.quantity))
      mobRelaxationAmount == Div(Mul(distToSiteCost, mobRelaxationPercent(q)), Num(100))
  IN Add(Sub(distToSiteCost, mobRelaxationAmount), Mul(trailerCost(q), NumOf(m.quantity)))

\* Variant: the relaxation taken off the trailer fee as well.
singleMobDemobCost_relaxAll(q) ==
  LET distanceCost == Mul(Mul(distance(q), runningCostPerKm(q.runningCostPerKm)), Num(2))
      relaxationAmount ==
        Div(Mul(Add(distanceCost, trailerCost(q)), mobRelaxationPercent(q)), Num(100))
  IN Sub(Add(distanceCost, trailerCost(q)), relaxationAmount)

singleMobDemobCost(q) ==
  LET distanceCost == Mul(Mul(distance(q), runningCostPerKm(q.runningCostPerKm)), Num(2))
      relaxationAmount == Div(Mul(distanceCost, mobRelaxationPercent(q)), Num(100))
  IN Sub(Add(distanceCost, trailerCost(q)), relaxationAmount)

mobDemobCost(q) ==
  IF hasMachines(q)
  THEN SumSeq([i \in 1..Len(Machines(q)) |-> machineMobDemobCost(q, Machines(q)[i][1])])
  ELSE singleMobDemobCost(q)

\* Variant: only "high" is told apart, "medium" gets the lowest percentage.
riskPercentage_mediumAsLow(q) ==
  IF q.riskFactor = Some("high") THEN Norm(15, 100) ELSE Norm(5, 100)

riskPercentage(q) ==
  IF q.riskFactor = Some("high") THEN Norm(15, 100)
  ELSE IF q.riskFactor = Some("medium") THEN Norm(10, 100)
  ELSE Norm(5, 100)

riskAdjustment(q) ==
  IF hasMachines(q)
  THEN SumSeq([i \in 1..Len(Machines(q)) |->
         Mul(Mul(NumOf(Machines(q)[i][1].baseRate), NumOf(Machines(q)[i][1].quantity)),
             riskPercentage(q))])
  ELSE IF hasBaseRates(q) THEN Mul(tierRate(q), riskPercentage(q))
  ELSE Zero

extraCharges(q) == NumberOr(q.extraCharge, 0)

subtotal(q) ==
  Add(Add(Add(Add(Add(workingCost(q), foodAccomCost(q)), mobDemobCost(q)),
              riskAdjustment(q)), usageLoadFactor(q)), extraCharges(q))

\* Variant: GST charged on the subtotal without the extra charge.
gstAmount_beforeExtra(q) ==
  IF TruthyBool(q.includeGst)
  THEN Mul(Sub(subtotal(q), extraCharges(q)), Norm(18, 100))
  ELSE Zero

gstAmount(q) == IF TruthyBool(q.includeGst) THEN Mul(subtotal(q), Norm(18, 100)) ELSE Zero

totalAmount(q) == Add(subtotal(q), gstAmount(q))

\* Variant: only an absent numberOfDays returns early, 0 days does not.
earlyReturn_absentOnly(q) == q.numberOfDays = None

\* if (!quotationData.numberOfDays) return 0
earlyReturn(q) == ~TruthyNum(q.numberOfDays)

calculateTotalRent(q) ==
  IF earlyReturn(q) THEN Zero
  ELSE IF Throws(q) THEN Zero
  ELSE totalAmount(q)

----------------------------------------------------------------------------
(* Quotation documents and the read accessors                              *)

\* x || d for strings, numbers and arrays; arrays are always truthy.
OrStr(o, d) == IF TruthyStr(o) THEN o ELSE Some(d)
OrNum(o, d) == IF TruthyNum(o) THEN o ELSE Some(d)
OrArr(o) == IF o = None THEN Some(<<>>) ELSE o

\* data.totalRent || 0 : absent, 0 and NaN are falsy.
OrTotal(o) == IF o # None /\ ~IsNaN(o[1]) /\ o[1] # Zero THEN o ELSE Some(Zero)

\* data.includeGst ?? true
GstOrTrue(o) == IF o = None THEN Some(TRUE) ELSE o

\* A quotation document with no field present.
EmptyData ==
  [ customerContact |-> None, selectedEquipment |-> None, selectedMachines |-> None,
    machineType |-> None, orderType |-> None, numberOfDays |-> None,
    workingHours |-> None, foodResources |-> None, accomResources |-> None,
    siteDistance |-> None, usage |-> None, riskFactor |-> None, extraCharge |-> None,
    incidentalCharges |-> None, otherFactorsCharge |-> None, billing |-> None,
    baseRate |-> None, includeGst |-> None, shift |-> None, dayNight |-> None,
    mobDemob |-> None, mobRelaxation |-> None, runningCostPerKm |-> None,
    version |-> None, createdAt |-> None, updatedAt |-> None, createdBy |-> None,
    status |-> None, totalRent |-> None, leadId |-> None, customerId |-> None,
    customerName |-> None, otherFactors |-> None, dealType |-> None,
    sundayWorking |-> None ]

\* { id: doc.id, ...data }
WithId(id, data) ==
  [f \in DOMAIN data \cup {"id"} |-> IF f = "id" THEN Some(id) ELSE data[f]]

\* data.customerContact?.<field>
ContactField(data, f) ==
  IF data.customerContact = None THEN None ELSE data.customerContact[1][f]

\* The customerContact object both defaulting accessors build.
readCustomerContact(data) ==
  Some([ name |-> IF TruthyStr(ContactField(data, "name")) THEN ContactField(data, "name")
                  ELSE OrStr(data.customerName, "Unknown"),
         email |-> OrStr(ContactField(data, "email"), ""),
         phone |-> OrStr(ContactField(data, "phone"), ""),
         company |-> OrStr(ContactField(data, "company"), ""),
         address |-> OrStr(ContactField(data, "address"), ""),
         designation |-> OrStr(ContactField(data, "designation"), "") ])

\* data.selectedEquipment?.<field>
EquipmentField(data, f) ==
  IF data.selectedEquipment = None THEN None ELSE data.selectedEquipment[1][f]

ZeroRates == [micro |-> Some(0), small |-> Some(0), monthly |-> Some(0), yearly |-> Some(0)]

\* The selectedEquipment object both defaulting accessors build, given the
\* display name.
readSelectedEquipment(data, name) ==
  Some([ id |-> OrStr(EquipmentField(data, "id"), ""),
         equipmentId |-> OrStr(EquipmentField(data, "equipmentId"), ""),
         name |-> name,
         baseRates |-> IF EquipmentField(data, "baseRates") = None THEN Some(ZeroRates)
                       ELSE EquipmentField(data, "baseRates") ])

\* data.selectedMachines || []
machinesOrEmpty(data) == IF data.selectedMachines = None THEN <<>> ELSE data.selectedMachines[1]

\* `${n} machines selected`
machinesSelected(n) == Some(ToString(n) \o " machines selected")

\* Display name computed by getQuotations.
listEquipmentName(data) ==
  IF Len(machinesOrEmpty(data)) > 0
  THEN machinesSelected(Len(machinesOrEmpty(data)))
  ELSE OrStr(EquipmentField(data, "name"), "Unknown Equipment")

\* Display name computed by getQuotationById.
equipmentName(data) ==
  IF Len(machinesOrEmpty(data)) > 1 THEN machinesSelected(Len(machinesOrEmpty(data)))
  ELSE IF Len(machinesOrEmpty(data)) = 1 THEN machinesOrEmpty(data)[1][1].name
  ELSE OrStr(EquipmentField(data, "name"), "Unknown Equipment")

\* One element of the array getQuotations returns; t is the time of the read.
getQuotationsRow(id, data, t) ==
  [ WithId(id, data) EXCEPT
      !.customerContact = readCustomerContact(data),
      !.selectedEquipment = readSelectedEquipment(data, listEquipmentName(data)),
      !.selectedMachines = Some(machinesOrEmpty(data)),
      !.createdAt = OrNum(data.createdAt, t),
      !.updatedAt = OrNum(data.updatedAt, t),
      !.status = OrStr(data.status, "draft"),
      !.totalRent = OrTotal(data.totalRent),
      !.version = OrNum(data.version, 1) ]

\* The object getQuotationById returns for an existing document.
getQuotationByIdRow(id, data, t) ==
  [ id |-> Some(id),
    customerContact |-> readCustomerContact(data),
    selectedEquipment |-> readSelectedEquipment(data, equipmentName(data)),
    selectedMachines |-> Some(machinesOrEmpty(data)),
    machineType |-> OrStr(data.machineType, ""),
    orderType |-> OrStr(data.orderType, "micro"),
    numberOfDays |-> OrNum(data.numberOfDays, 0),
    workingHours |-> OrNum(data.workingHours, 8),
    foodResources |-> OrNum(data.foodResources, 0),
    accomResources |-> OrNum(data.accomResources, 0),
    siteDistance |-> OrNum(data.siteDistance, 0),
    usage |-> OrStr(data.usage, "normal"),
    riskFactor |-> OrStr(data.riskFactor, "low"),
    extraCharge |-> OrNum(data.extraCharge, 0),
    incidentalCharges |-> OrArr(data.incidentalCharges),
    otherFactorsCharge |-> OrNum(data.otherFactorsCharge, 0),
    billing |-> OrStr(data.billing, "gst"),
    baseRate |-> OrNum(data.baseRate, 0),
    includeGst |-> GstOrTrue(data.includeGst),
    shift |-> OrStr(data.shift, "single"),
    dayNight |-> OrStr(data.dayNight, "day"),
    mobDemob |-> OrNum(data.mobDemob, 0),
    mobRelaxation |-> OrNum(data.mobRelaxation, 0),
    runningCostPerKm |-> OrNum(data.runningCostPerKm, 0),
    version |-> OrNum(data.version, 1),
    createdAt |-> OrNum(data.createdAt, t),
    updatedAt |-> OrNum(data.updatedAt, t),
    createdBy |-> OrStr(data.createdBy, "system"),
    status |-> OrStr(data.status, "draft"),
    totalRent |-> OrTotal(data.totalRent),
    leadId |-> OrStr(data.leadId, ""),
    customerId |-> OrStr(data.customerId, ""),
    customerName |-> OrStr(data.customerName, "Unknown"),
    otherFactors |-> OrArr(data.otherFactors),
    dealType |-> data.dealType,
    sundayWorking |-> data.sundayWorking ]

\* One element of the arrays getQuotationsForLead / getQuotationsForCustomer
\* return: the raw document with its id.
rawRow(id, data) == WithId(id, data)

----------------------------------------------------------------------------
(* State                                                                   *)

VARIABLES
  quotationData,  \* the record handed to calculateTotalRent
  edits,          \* number of changes made to the base record
  rentPc,         \* "form": input being built, "done": function returned
  totalRent,      \* the value calculateTotalRent returned
  quotations,     \* the quotations collection: document i has id i
  deals,          \* the deals collection: deal id -> document, None if missing
  now,            \* the clock read by new Date()
  call,           \* the createQuotation call of each caller
  read,           \* the read accessor that returned last, and its result
  update,         \* the updateQuotation call of each caller
  sessionIds,     \* assistantService._sessionIds: user id -> session id
  localStorage,   \* the item 'asp-cranes-session-ids' of the browser's storage
  assistantMessages, \* the assistant_messages collection, in order of writing
  send,           \* the sendMessage call of each caller
  page,           \* the number of the page load the browser is showing
  lastSession,    \* user id -> session id of the last successful reply received
  widget,         \* the state, storage and pending promises of AIAssistantWidget
  api             \* the REST handlers: their calls, the documents they wrote and
                  \* the requests they sent to the agent

rentVars == <<quotationData, edits, rentPc, totalRent>>
storeVars == <<quotations, deals, now, call, read>>
updateVars == <<update>>
chatVars == <<sessionIds, localStorage, assistantMessages, send, page, lastSession>>
vars == <<quotationData, edits, rentPc, totalRent, quotations, deals, now, call, read,
          update, sessionIds, localStorage, assistantMessages, send, page, lastSession,
          widget, api>>

\* What the steps of one component leave alone.
outsideRent == <<storeVars, updateVars, chatVars, widget, api>>
outsideStore == <<rentVars, updateVars, chatVars, widget, api>>
outsideUpdate == <<rentVars, call, read, chatVars, widget, api>>
outsideChat == <<rentVars, storeVars, updateVars, widget, api>>
outsideWidget == <<rentVars, storeVars, updateVars, chatVars, api>>
outsideApi == <<rentVars, storeVars, updateVars, chatVars, widget>>

DealIds == {"L1", "L2"}
Callers == {"c1", "c2"}

\* The deal document of lead L1 exists; lead L2 has no deal document.
InitialDeals ==
  [d \in DealIds |->
     IF d = "L1"
     THEN Some([value |-> Num(100), updatedAt |-> 0,
                customer |-> [name |-> Some("Ravi"), email |-> Some("ravi@example.com"),
                              phone |-> Some("98000"), company |-> Some("Acme"),
                              address |-> None, designation |-> None]])
     ELSE None]

\* A caller that is not inside createQuotation.
IdleCall ==
  [pc |-> "idle", data |-> EmptyData, newQuotation |-> EmptyData, docRef |-> 0]

NoRead == [op |-> "none", time |-> 0, snapshot |-> <<>>, result |-> <<>>]

StoreIdle ==
  /\ quotations = <<>>
  /\ deals = InitialDeals
  /\ now = 1
  /\ call = [c \in Callers |-> IdleCall]
  /\ read = NoRead

\* A caller that is not inside updateQuotation.
IdleUpdate ==
  [pc |-> "idle", id |-> 0, quotationData |-> EmptyData, updateData |-> EmptyData,
   result |-> <<>>]

UpdateIdle == update = [c \in Callers |-> IdleUpdate]

\* The user ids sendMessage is called for: a signed-in user and the fallback
\* id of a call without user.
UserIds == {"A", "crm_user"}

\* A caller that is not inside sendMessage.
IdleSend ==
  [pc |-> "idle", message |-> "", userId |-> "", request |-> <<>>, reply |-> <<>>,
   result |-> <<>>, error |-> <<>>]

\* The page has just been loaded in a browser that never talked to the agent.
ChatIdle ==
  /\ sessionIds = [u \in UserIds |-> None]
  /\ localStorage = None
  /\ assistantMessages = <<>>
  /\ send = [c \in Callers |-> IdleSend]
  /\ page = 1
  /\ lastSession = [u \in UserIds |-> None]

\* The keys under which the widget keeps the conversation in the browser's
\* storage: the generic one and the one of user A.
ChatKeys == {"asp-cranes-chat-messages", "asp-cranes-chat-messages-A"}

\* The widget before it is mounted: closed, nobody signed in, nothing stored.
NoWidget ==
  [mounted |-> FALSE, isOpen |-> FALSE, isLoading |-> FALSE, messages |-> <<>>,
   user |-> None, localStorage |-> [k \in ChatKeys |-> <<>>],
   loads |-> <<>>, requests |-> <<>>, settled |-> <<>>]

\* A handler that is not serving a request.
IdleHandler ==
  [pc |-> "idle", handler |-> "", body |-> <<>>, doc |-> <<>>, status |-> None,
   json |-> None]

\* The server has served nothing yet.
NoApi ==
  [call |-> [c \in Callers |-> IdleHandler], leads |-> <<>>, quotations |-> <<>>,
   agent |-> <<>>]

\* The components that a specification does not exercise stay idle.
ExtIdle == UpdateIdle /\ ChatIdle /\ widget = NoWidget /\ api = NoApi

----------------------------------------------------------------------------
(* Inputs of calculateTotalRent                                            *)

\* Bounds of the input space.
MaxEdits == 2
MaxMachines == 2

Machine(name, rate, qty, perKm) ==
  [name |-> name, baseRate |-> rate, quantity |-> qty, runningCostPerKm |-> perKm]

\* Well-formed machines, a machine without baseRate, and a null entry.
MachineChoices ==
  { Some(Machine(Some("Crane A"), Some(20), Some(2), Some(3))),
    Some(Machine(Some("Crane B"), Some(13), Some(1), None)),
    Some(Machine(Some("Crane C"), None, Some(1), Some(3))),
    None }

Equipment(name, rates) ==
  [id |-> Some("e1"), equipmentId |-> Some("EQ0001"), name |-> name, baseRates |-> rates]

FullRates == [micro |-> Some(20), small |-> Some(10), monthly |-> Some(26), yearly |-> Some(30)]

EquipmentChoices ==
  { None,
    Some(Equipment(Some("Tower Crane"), Some(FullRates))),
    Some(Equipment(Some("Tower Crane"), None)),
    Some(Equipment(None, Some([FullRates EXCEPT !.micro = None]))) }

\* A legacy single-equipment quotation.
BaseSingle ==
  [ numberOfDays |-> Some(10), workingHours |-> Some(4), shift |-> Some("single"),
    usage |-> Some("normal"), riskFactor |-> Some("low"),
    siteDistance |-> Some(10), mobDemob |-> Some(50), mobRelaxation |-> Some(50),
    runningCostPerKm |-> Some(3), foodResources |-> Some(1), accomResources |-> Some(1),
    extraCharge |-> Some(30), includeGst |-> Some(TRUE), orderType |-> Some("micro"),
    selectedEquipment |-> Some(Equipment(Some("Tower Crane"), Some(FullRates))),
    selectedMachines |-> None ]

\* A quotation with a machine list that still carries the legacy equipment.
BaseFleet ==
  [ BaseSingle EXCEPT
      !.selectedMachines = Some(<<Some(Machine(Some("Crane A"), Some(20), Some(2), Some(3)))>>),
      !.includeGst = Some(FALSE) ]

\* The values a field of the form can be set to.
FieldValues ==
  [ numberOfDays |-> {None, Some(0), Some(25), Some(26), Some(30)},
    workingHours |-> {None, Some(0), Some(8)},
    shift |-> {None, Some("double")},
    usage |-> {None, Some("heavy")},
    riskFactor |-> {None, Some("medium"), Some("high")},
    siteDistance |-> {None, Some(0)},
    mobDemob |-> {None, Some(0)},
    mobRelaxation |-> {None, Some(0), Some(100)},
    runningCostPerKm |-> {None, Some(0)},
    foodResources |-> {None, Some(0), Some(2)},
    accomResources |-> {None, Some(0)},
    extraCharge |-> {None, Some(0)},
    includeGst |-> {None, Some(TRUE), Some(FALSE)},
    orderType |-> {None, Some("monthly")},
    selectedEquipment |-> EquipmentChoices,
    selectedMachines |-> {None, Some(<<>>)} ]

RentInit ==
  /\ quotationData \in {BaseSingle, BaseFleet}
  /\ edits = 0
  /\ rentPc = "form"
  /\ totalRent = Zero
  /\ StoreIdle
  /\ ExtIdle

\* The caller sets one field of the record.
SetField(f, v) ==
  /\ rentPc = "form"
  /\ edits < MaxEdits
  /\ quotationData[f] # v
  /\ quotationData' = [quotationData EXCEPT ![f] = v]
  /\ edits' = edits + 1
  /\ UNCHANGED <<rentPc, totalRent>>
  /\ UNCHANGED outsideRent

\* The caller appends an entry to selectedMachines.
AddMachine(m) ==
  /\ rentPc = "form"
  /\ edits < MaxEdits
  /\ LET old == IF quotationData.selectedMachines = None THEN <<>>
                ELSE quotationData.selectedMachines[1]
     IN /\ Len(old) < MaxMachines
        /\ quotationData' = [quotationData EXCEPT !.selectedMachines = Some(Append(old, m))]
  /\ edits' = edits + 1
  /\ UNCHANGED <<rentPc, totalRent>>
  /\ UNCHANGED outsideRent

\* calculateTotalRent(quotationData) runs and returns.
Calculate ==
  /\ rentPc = "form"
  /\ totalRent' = calculateTotalRent(quotationData)
  /\ rentPc' = "done"
  /\ UNCHANGED <<quotationData, edits>>
  /\ UNCHANGED outsideRent

RentNext ==
  \/ \E f \in DOMAIN FieldValues : \E v \in FieldValues[f] : SetField(f, v)
  \/ \E m \in MachineChoices : AddMachine(m)
  \/ Calculate

RentSpec == RentInit /\ [][RentNext]_vars

----------------------------------------------------------------------------
(* Properties of calculateTotalRent                                        *)

Done == rentPc = "done"

\* The record with numberOfDays replaced.
WithDays(q, d) == [q EXCEPT !.numberOfDays = d]

\* C1: whenever numberOfDays is 0 or absent, calculateTotalRent returns
\* exactly 0, whatever the other fields hold.
C1_ZeroDaysZeroTotal ==
  (Done /\ quotationData.numberOfDays \in {None, Some(0)}) => totalRent = Zero

\* C1 witness: the function returned for 0 days on a record whose other
\* cost inputs (distance, trailer fee, extra charge, rates) are all non-zero.
C1_Witness ==
  /\ Done
  /\ quotationData.numberOfDays = Some(0)
  /\ TruthyNum(quotationData.siteDistance)
  /\ TruthyNum(quotationData.mobDemob)
  /\ TruthyNum(quotationData.extraCharge)
  /\ TruthyNum(quotationData.runningCostPerKm)
  /\ hasBaseRates(quotationData)
  /\ ~hasMachines(quotationData)

\* Day counts above the monthly threshold used to vary numberOfDays.
MonthlyDayCounts == {Some(26), Some(27), Some(30), Some(365)}

\* C2: billing is monthly exactly when numberOfDays > 25 (25 daily, 26
\* monthly), effectiveDays is 26 in monthly billing and numberOfDays
\* otherwise, and two inputs that differ only in numberOfDays, both above
\* 25, get the same total.
C2_MonthlyBoundary ==
  (Done /\ TruthyNum(quotationData.numberOfDays)) =>
    LET d == quotationData.numberOfDays[1] IN
    /\ isMonthly(quotationData) <=> d >= 26
    /\ effectiveDays(quotationData) = IF d >= 26 THEN Num(26) ELSE Num(d)
    /\ d > 25 =>
         \A d2 \in MonthlyDayCounts :
           calculateTotalRent(WithDays(quotationData, d2)) = totalRent

\* C2 witness: a monthly quotation (30 days) priced to a non-zero total.
C2_Witness ==
  /\ Done
  /\ quotationData.numberOfDays = Some(30)
  /\ ~IsNaN(totalRent)
  /\ totalRent # Zero

\* C2 witness of the boundary: a quotation of exactly 25 days was priced.
C2_WitnessDaily == Done /\ quotationData.numberOfDays = Some(25) /\ totalRent # Zero

\* Values used to vary the legacy single-equipment inputs.
OrderTypeChoices == {None, Some("monthly")}
PerKmChoices == {None, Some(7)}

WithLegacy(q, e, o, r) ==
  [q EXCEPT !.selectedEquipment = e, !.orderType = o, !.runningCostPerKm = r]

\* C3: with a non-empty selectedMachines the total, and each of working
\* cost, usage load, mob-demob cost and risk adjustment, is the same for all
\* values of selectedEquipment, orderType and the top-level runningCostPerKm.
C3_MachinesTakePrecedence ==
  (Done /\ hasMachines(quotationData) /\ TruthyNum(quotationData.numberOfDays)) =>
    LET ok == ~Throws(quotationData)
        wc == workingCost(quotationData)
        ul == usageLoadFactor(quotationData)
        md == mobDemobCost(quotationData)
        ra == riskAdjustment(quotationData)
    IN \A e \in EquipmentChoices, o \in OrderTypeChoices, r \in PerKmChoices :
         LET q2 == WithLegacy(quotationData, e, o, r) IN
         /\ calculateTotalRent(q2) = totalRent
         /\ ok => /\ workingCost(q2) = wc
                  /\ usageLoadFactor(q2) = ul
                  /\ mobDemobCost(q2) = md
                  /\ riskAdjustment(q2) = ra

\* C3 witness: a priced quotation with machines and a populated legacy
\* selectedEquipment, a site distance and a top-level runningCostPerKm.
C3_Witness ==
  /\ Done
  /\ hasMachines(quotationData)
  /\ ~Throws(quotationData)
  /\ hasBaseRates(quotationData)
  /\ TruthyNum(quotationData.numberOfDays)
  /\ TruthyNum(quotationData.siteDistance)
  /\ TruthyNum(quotationData.runningCostPerKm)
  /\ ~IsNaN(totalRent)
  /\ totalRent # Zero

\* The subtotal as the sum of the six cost components.
ComponentSum(q) ==
  SumSeq(<<workingCost(q), foodAccomCost(q), mobDemobCost(q), riskAdjustment(q),
           usageLoadFactor(q), Num(IF TruthyNum(q.extraCharge) THEN q.extraCharge[1] ELSE 0)>>)

\* C4: for numberOfDays > 0 the total is the sum of the six components
\* times 1.18 when includeGst is true, and exactly that sum when includeGst
\* is false.
C4_GstOnSubtotal ==
  (Done /\ TruthyNum(quotationData.numberOfDays) /\ ~Throws(quotationData)) =>
    /\ quotationData.includeGst = Some(TRUE) =>
         totalRent = Mul(ComponentSum(quotationData), Norm(118, 100))
    /\ quotationData.includeGst = Some(FALSE) =>
         totalRent = ComponentSum(quotationData)

\* C4 witness: a total with GST on a quotation with a non-zero extra charge.
C4_Witness ==
  /\ Done
  /\ quotationData.includeGst = Some(TRUE)
  /\ TruthyNum(quotationData.numberOfDays)
  /\ TruthyNum(quotationData.extraCharge)
  /\ ~IsNaN(totalRent)
  /\ totalRent # Zero

\* C4 witness without GST.
C4_WitnessNoGst ==
  /\ Done
  /\ quotationData.includeGst = Some(FALSE)
  /\ TruthyNum(quotationData.numberOfDays)
  /\ ~IsNaN(totalRent)
  /\ totalRent # Zero

\* C5: calculateTotalRent returns a numeric total for every record, and the
\* total is exactly 0 whenever the computation fails internally.
C5_AlwaysNumeric ==
  Done =>
    /\ ~IsNaN(totalRent)
    /\ (TruthyNum(quotationData.numberOfDays) /\ Throws(quotationData)) => totalRent = Zero

\* C5, the part the code keeps: a TypeError raised inside the try block (a
\* null machine entry) is swallowed and the total is 0.
C5_ThrowGivesZero ==
  (Done /\ TruthyNum(quotationData.numberOfDays) /\ Throws(quotationData)) => totalRent = Zero

----------------------------------------------------------------------------
(* The quotations and deals collections: createQuotation and the reads     *)

\* Bounds of the store.
MaxQuotations == 2
MaxTime == 2

CustomerIds == {"C1", "C2"}

CraneA == Some(Machine(Some("Crane A"), Some(20), Some(2), Some(3)))
CraneB == Some(Machine(Some("Crane B"), Some(13), Some(1), None))

\* The quotation data callers hand to createQuotation: a legacy
\* single-equipment quotation for lead L1 that leaves most optional fields out,
\* a two-machine quotation without lead that supplies its own totalRent, and
\* a one-machine quotation for lead L2, which has no deal document.
DataLegacy ==
  [ EmptyData EXCEPT
      !.numberOfDays = Some(10), !.orderType = Some("micro"),
      !.selectedEquipment = Some(Equipment(Some("Tower Crane"), Some(FullRates))),
      !.siteDistance = Some(10), !.runningCostPerKm = Some(3),
      !.leadId = Some("L1"), !.customerId = Some("C1"), !.customerName = Some("Acme") ]

DataFleet ==
  [ EmptyData EXCEPT
      !.numberOfDays = Some(30), !.workingHours = Some(4), !.shift = Some("double"),
      !.selectedMachines = Some(<<CraneA, CraneB>>),
      !.selectedEquipment = Some(Equipment(Some("Tower Crane"), Some(FullRates))),
      !.includeGst = Some(TRUE), !.extraCharge = Some(30),
      !.totalRent = Some(Num(999)), !.status = Some("sent"), !.version = Some(2),
      !.customerId = Some("C2"),
      !.customerContact = Some([name |-> Some("Asha"), email |-> Some("asha@example.com"),
                                phone |-> None, company |-> None, address |-> None,
                                designation |-> None]) ]

DataOne ==
  [ EmptyData EXCEPT
      !.numberOfDays = Some(5), !.selectedMachines = Some(<<CraneB>>),
      !.includeGst = Some(FALSE), !.mobDemob = Some(50),
      !.leadId = Some("L2"), !.customerId = Some("C1") ]

StoreInputs == {DataLegacy, DataFleet, DataOne}

\* Variant: a totalRent supplied by the caller survives (spread after the
\* computed fields).
newQuotation_callerTotal(data, timestamp) ==
  [ data EXCEPT
      !.createdAt = Some(timestamp),
      !.updatedAt = Some(timestamp),
      !.totalRent = IF data.totalRent # None THEN data.totalRent
                    ELSE Some(calculateTotalRent(data)) ]

\* { ...quotationData, createdAt, updatedAt, totalRent: calculateTotalRent(..) }
newQuotation(data, timestamp) ==
  [ data EXCEPT
      !.createdAt = Some(timestamp),
      !.updatedAt = Some(timestamp),
      !.totalRent = Some(calculateTotalRent(data)) ]

\* quotationData.leadId is truthy
hasLead(data) == TruthyStr(data.leadId)

\* Variant: the deal value is written but its timestamp is not touched.
dealUpdate_valueOnly(deal, q) == [deal EXCEPT !.value = q.totalRent[1]]

\* updateDoc(dealRef, { value: newQuotation.totalRent, updatedAt: timestamp })
dealUpdate(deal, q) ==
  [deal EXCEPT !.value = q.totalRent[1], !.updatedAt = q.createdAt[1]]

\* { id: docRef.id, ...newQuotation }, the value createQuotation resolves to.
createResult(cl) == WithId(cl.docRef, cl.newQuotation)

NoPendingRead == read.op = "none"

\* Variant: the deal is written before addDoc is issued.
CreateStart_dealFirst(c, data) ==
  /\ NoPendingRead
  /\ call[c].pc = "idle"
  /\ Len(quotations) + Cardinality({k \in Callers : call[k].pc = "addDoc"}) < MaxQuotations
  /\ call' = [call EXCEPT ![c] =
                [pc |-> "addDoc", data |-> data,
                 newQuotation |-> newQuotation(data, now), docRef |-> 0]]
  /\ deals' = IF hasLead(data) /\ deals[data.leadId[1]] # None
              THEN [deals EXCEPT ![data.leadId[1]] =
                      Some(dealUpdate(@[1], newQuotation(data, now)))]
              ELSE deals
  /\ UNCHANGED <<quotations, now, read>>
  /\ UNCHANGED outsideStore

\* createQuotation up to the first await: the timestamp is taken, the total
\* computed and addDoc issued.
CreateStart(c, data) ==
  /\ NoPendingRead
  /\ call[c].pc = "idle"
  /\ Len(quotations) + Cardinality({k \in Callers : call[k].pc = "addDoc"}) < MaxQuotations
  /\ call' = [call EXCEPT ![c] =
                [pc |-> "addDoc", data |-> data,
                 newQuotation |-> newQuotation(data, now), docRef |-> 0]]
  /\ UNCHANGED <<quotations, deals, now, read>>
  /\ UNCHANGED outsideStore

\* addDoc resolves: the document is stored under a new id.
AddDocOk(c) ==
  /\ NoPendingRead
  /\ call[c].pc = "addDoc"
  /\ quotations' = Append(quotations, call[c].newQuotation)
  /\ call' = [call EXCEPT ![c].docRef = Len(quotations) + 1,
                          ![c].pc = IF hasLead(call[c].data) THEN "updateDeal"
                                    ELSE "returned"]
  /\ UNCHANGED <<deals, now, read>>
  /\ UNCHANGED outsideStore

\* addDoc rejects: the catch block logs "Error creating quotation:" and
\* rethrows.
AddDocFail(c) ==
  /\ NoPendingRead
  /\ call[c].pc = "addDoc"
  /\ call' = [call EXCEPT ![c].pc = "threw"]
  /\ UNCHANGED <<quotations, deals, now, read>>
  /\ UNCHANGED outsideStore

\* updateDoc on deals/<leadId> resolves; it can only do so for an existing
\* deal document.
UpdateDealOk(c) ==
  /\ NoPendingRead
  /\ call[c].pc = "updateDeal"
  /\ LET lead == call[c].data.leadId[1] IN
       /\ lead \in DealIds
       /\ deals[lead] # None
       /\ deals' = [deals EXCEPT ![lead] = Some(dealUpdate(@[1], call[c].newQuotation))]
  /\ call' = [call EXCEPT ![c].pc = "returned"]
  /\ UNCHANGED <<quotations, now, read>>
  /\ UNCHANGED outsideStore

\* updateDoc rejects (no such deal document, or a store error): the same
\* catch block logs "Error creating quotation:" and rethrows.
UpdateDealFail(c) ==
  /\ NoPendingRead
  /\ call[c].pc = "updateDeal"
  /\ call' = [call EXCEPT ![c].pc = "threw"]
  /\ UNCHANGED <<quotations, deals, now, read>>
  /\ UNCHANGED outsideStore

\* The caller has received the result or the error.
CreateEnd(c) ==
  /\ NoPendingRead
  /\ call[c].pc \in {"returned", "threw"}
  /\ call' = [call EXCEPT ![c] = IdleCall]
  /\ UNCHANGED <<quotations, deals, now, read>>
  /\ UNCHANGED outsideStore

\* Time passes.
Tick ==
  /\ NoPendingRead
  /\ now < MaxTime
  /\ now' = now + 1
  /\ UNCHANGED <<quotations, deals, call, read>>
  /\ UNCHANGED outsideStore

\* snapshot.docs of the whole collection, in id order.
AllDocs == [i \in 1..Len(quotations) |-> [id |-> i, data |-> quotations[i]]]

\* orderBy('createdAt', 'desc'): later timestamps first, ties by id.
Precedes(a, b) ==
  \/ a.data.createdAt[1] > b.data.createdAt[1]
  \/ a.data.createdAt[1] = b.data.createdAt[1] /\ a.id > b.id

RECURSIVE OrderDesc(_)
OrderDesc(docs) ==
  IF docs = <<>> THEN <<>>
  ELSE LET i == CHOOSE i \in 1..Len(docs) :
                  \A j \in 1..Len(docs) : j = i \/ Precedes(docs[i], docs[j])
       IN <<docs[i]>> \o OrderDesc(SubSeq(docs, 1, i - 1) \o SubSeq(docs, i + 1, Len(docs)))

\* query(quotationsCollection, where(field, '==', value), orderBy('createdAt', 'desc'))
\* (a document without createdAt is not matched by the ordered query).
QueryDocs(field, value) ==
  OrderDesc(SelectSeq(AllDocs,
              LAMBDA e : e.data[field] = Some(value) /\ e.data.createdAt # None))

\* getQuotations()
GetQuotations ==
  /\ NoPendingRead
  /\ read' = [op |-> "getQuotations", time |-> now, snapshot |-> AllDocs,
              result |-> [i \in 1..Len(AllDocs) |->
                            getQuotationsRow(AllDocs[i].id, AllDocs[i].data, now)]]
  /\ UNCHANGED <<quotations, deals, now, call>>
  /\ UNCHANGED outsideStore

\* getQuotationById(id): null (no element) when the document does not exist.
GetQuotationById(id) ==
  /\ NoPendingRead
  /\ read' = IF id \in 1..Len(quotations)
             THEN [op |-> "getQuotationById", time |-> now,
                   snapshot |-> <<AllDocs[id]>>,
                   result |-> <<getQuotationByIdRow(id, quotations[id], now)>>]
             ELSE [op |-> "getQuotationById", time |-> now,
                   snapshot |-> <<>>, result |-> <<>>]
  /\ UNCHANGED <<quotations, deals, now, call>>
  /\ UNCHANGED outsideStore

\* getQuotationsForLead(leadId)
GetQuotationsForLead(leadId) ==
  /\ NoPendingRead
  /\ LET docs == QueryDocs("leadId", leadId) IN
       read' = [op |-> "getQuotationsForLead", time |-> now, snapshot |-> docs,
                result |-> [i \in 1..Len(docs) |-> rawRow(docs[i].id, docs[i].data)]]
  /\ UNCHANGED <<quotations, deals, now, call>>
  /\ UNCHANGED outsideStore

\* getQuotationsForCustomer(customerId)
GetQuotationsForCustomer(customerId) ==
  /\ NoPendingRead
  /\ LET docs == QueryDocs("customerId", customerId) IN
       read' = [op |-> "getQuotationsForCustomer", time |-> now, snapshot |-> docs,
                result |-> [i \in 1..Len(docs) |-> rawRow(docs[i].id, docs[i].data)]]
  /\ UNCHANGED <<quotations, deals, now, call>>
  /\ UNCHANGED outsideStore

\* The caller of a read accessor has received the array (or object).  A read
\* leaves the store as it is, so handing the result over before the next
\* store operation loses no interleaving.
ReadEnd ==
  /\ read.op # "none"
  /\ read' = NoRead
  /\ UNCHANGED <<quotations, deals, now, call>>
  /\ UNCHANGED outsideStore

\* No stand-alone pricing call is under way in the store specification.
RentIdle ==
  /\ quotationData = None
  /\ edits = 0
  /\ rentPc = "idle"
  /\ totalRent = Zero

Init == RentIdle /\ StoreIdle /\ ExtIdle

Next ==
  \/ \E c \in Callers : \E data \in StoreInputs : CreateStart(c, data)
  \/ \E c \in Callers : AddDocOk(c)
  \/ \E c \in Callers : AddDocFail(c)
  \/ \E c \in Callers : UpdateDealOk(c)
  \/ \E c \in Callers : UpdateDealFail(c)
  \/ \E c \in Callers : CreateEnd(c)
  \/ Tick
  \/ GetQuotations
  \/ \E id \in 1..MaxQuotations : GetQuotationById(id)
  \/ \E l \in DealIds : GetQuotationsForLead(l)
  \/ \E k \in CustomerIds : GetQuotationsForCustomer(k)
  \/ ReadEnd

Spec == Init /\ [][Next]_vars

----------------------------------------------------------------------------
(* Properties of createQuotation and the read accessors                    *)

\* C6: the document createQuotation stores, and the quotation it returns,
\* carry totalRent = calculateTotalRent(quotationData); a totalRent supplied
\* by the caller is never the one stored.
C6_StoredTotalIsComputed ==
  [][\A c \in Callers :
       /\ (call[c].pc = "addDoc" /\ call'[c].pc \in {"updateDeal", "returned"}) =>
            /\ Len(quotations') = Len(quotations) + 1
            /\ quotations'[call'[c].docRef].totalRent =
                 Some(calculateTotalRent(call[c].data))
       /\ (call[c].pc # "returned" /\ call'[c].pc = "returned") =>
            /\ createResult(call'[c]).totalRent = Some(calculateTotalRent(call'[c].data))
            /\ createResult(call'[c]).id = Some(call'[c].docRef)
    ]_vars

\* C6 witness: createQuotation returned for data that supplied its own
\* totalRent (999), and the stored document holds another, computed total.
C6_Witness ==
  \E c \in Callers :
    /\ call[c].pc = "returned"
    /\ call[c].data.totalRent = Some(Num(999))
    /\ call[c].docRef \in 1..Len(quotations)
    /\ quotations[call[c].docRef].totalRent # Some(Num(999))
    /\ quotations[call[c].docRef].totalRent # Some(Zero)

\* C7: a createQuotation call with a leadId returns only after the deal
\* document with that id has value = the new totalRent and updatedAt = the
\* creation timestamp, no other deal being touched; a call without leadId
\* changes no deal document in any of its steps.
C7_DealSync ==
  [][\A c \in Callers :
       /\ (call'[c].pc = "returned" /\ call[c].pc # "returned" /\ hasLead(call[c].data)) =>
            LET lead == call[c].data.leadId[1] IN
            /\ call[c].pc = "updateDeal"
            /\ deals'[lead] # None
            /\ deals'[lead][1].value = call[c].newQuotation.totalRent[1]
            /\ deals'[lead][1].updatedAt = call[c].newQuotation.createdAt[1]
            /\ \A d \in DealIds \ {lead} : deals'[d] = deals[d]
       /\ (call'[c] # call[c] /\ ~hasLead(call[c].data) /\ ~hasLead(call'[c].data)) =>
            deals' = deals
    ]_vars

\* C7 witness: a call with leadId L1 returned at time 2 and the deal L1
\* carries the new total and that timestamp.
C7_Witness ==
  \E c \in Callers :
    /\ call[c].pc = "returned"
    /\ call[c].data.leadId = Some("L1")
    /\ call[c].newQuotation.createdAt = Some(2)
    /\ deals["L1"] # None
    /\ deals["L1"][1].value = call[c].newQuotation.totalRent[1]
    /\ deals["L1"][1].updatedAt = 2
    /\ deals["L1"][1].value # Num(100)

\* C7 witness without lead: a call whose data has no leadId returned.
C7_WitnessNoLead ==
  \E c \in Callers :
    /\ call[c].pc = "returned"
    /\ ~hasLead(call[c].data)
    /\ call[c].docRef \in 1..Len(quotations)

\* C8: once the quotation document has been written (docRef is set), a
\* failing deal write does not make createQuotation end in the rejection
\* by which it reports that the quotation could not be created.
C8_SyncFailureNotConflated ==
  \A c \in Callers : ~(call[c].pc = "threw" /\ call[c].docRef # 0)

\* The fields for which a default is documented (all fields of the record
\* getQuotationById builds, except dealType and sundayWorking).
DefaultedFields == (DOMAIN EmptyData) \ {"dealType", "sundayWorking"}

\* C9: every read accessor returns every stored quotation with each
\* optional field set (never undefined), to the same value getQuotationById
\* gives for that document.
C9_ReadDefaultsIdentical ==
  read.op # "none" =>
    \A i \in 1..Len(read.result) :
      LET row == read.result[i]
          ref == getQuotationByIdRow(read.snapshot[i].id, read.snapshot[i].data, read.time)
      IN \A f \in DefaultedFields : row[f] # None /\ row[f] = ref[f]

\* The display name as documented: "<n> machines selected" for more than
\* one machine, the machine's name for exactly one, else the legacy
\* equipment name or "Unknown Equipment".
ExpectedName(data) ==
  LET ms == IF data.selectedMachines = None THEN <<>> ELSE data.selectedMachines[1] IN
  IF Len(ms) > 1 THEN Some(ToString(Len(ms)) \o " machines selected")
  ELSE IF Len(ms) = 1 THEN ms[1][1].name
  ELSE IF data.selectedEquipment # None /\ TruthyStr(data.selectedEquipment[1].name)
       THEN data.selectedEquipment[1].name
  ELSE Some("Unknown Equipment")

\* C10: on the list read as on the by-id read, the returned
\* selectedEquipment.name is the documented display name.
C10_EquipmentDisplayName ==
  read.op \in {"getQuotations", "getQuotationById"} =>
    \A i \in 1..Len(read.result) :
      read.result[i].selectedEquipment[1].name = ExpectedName(read.snapshot[i].data)

\* C10, the by-id read alone.
C10_ByIdDisplayName ==
  read.op = "getQuotationById" =>
    \A i \in 1..Len(read.result) :
      read.result[i].selectedEquipment[1].name = ExpectedName(read.snapshot[i].data)

----------------------------------------------------------------------------
(* updateQuotation                                                         *)

\* The partial quotations callers hand to updateQuotation: new pricing
\* inputs without a total, a new fleet for lead L1, a patch that carries its
\* own total, and a patch naming lead L2, which has no deal document.
UpdateInputs ==
  { [ EmptyData EXCEPT !.numberOfDays = Some(30), !.extraCharge = Some(30) ],
    [ EmptyData EXCEPT !.selectedMachines = Some(<<CraneA>>), !.includeGst = Some(FALSE),
                       !.leadId = Some("L1") ],
    [ EmptyData EXCEPT !.totalRent = Some(Num(5)), !.status = Some("accepted") ],
    [ EmptyData EXCEPT !.leadId = Some("L2"), !.numberOfDays = Some(5) ] }

\* getDealById(leadId): the deal document, or null (no element).
getDealById(leadId) == IF leadId \in DealIds THEN deals[leadId] ELSE None

\* quotationData.customerContact = { name: deal.customer.name, ... }
withDealContact(data, deal) ==
  IF deal = None THEN data
  ELSE [data EXCEPT !.customerContact =
          Some([name |-> deal[1].customer.name, email |-> deal[1].customer.email,
                phone |-> deal[1].customer.phone, company |-> deal[1].customer.company,
                address |-> deal[1].customer.address,
                designation |-> deal[1].customer.designation])]

\* { ...quotationData, updatedAt: new Date().toISOString() }
updateData(data, timestamp) == [data EXCEPT !.updatedAt = Some(timestamp)]

\* Variant: the write recomputes the total from the merged document.
updateDoc_recompute(document, fields) ==
  LET merged == [f \in DOMAIN document |->
                   IF fields[f] # None THEN fields[f] ELSE document[f]]
  IN [merged EXCEPT !.totalRent = Some(calculateTotalRent(merged))]

\* updateDoc(quotationRef, updateData): the fields present in updateData
\* replace those of the document, every other field stays.
updateDoc(document, fields) ==
  [f \in DOMAIN document |-> IF fields[f] # None THEN fields[f] ELSE document[f]]

\* updateQuotation up to its first await: getDealById when the patch names a
\* lead, updateDoc otherwise.
UpdateStart(c, id, data) ==
  /\ update[c].pc = "idle"
  /\ update' = [update EXCEPT ![c] =
                  IF TruthyStr(data.leadId)
                  THEN [IdleUpdate EXCEPT !.pc = "getDeal", !.id = id,
                                          !.quotationData = data]
                  ELSE [IdleUpdate EXCEPT !.pc = "updateDoc", !.id = id,
                                          !.quotationData = data,
                                          !.updateData = updateData(data, now)]]
  /\ UNCHANGED <<quotations, deals, now>>
  /\ UNCHANGED outsideUpdate

\* getDealById resolves: the contact of the deal's customer is copied into
\* the patch, the timestamp is taken and updateDoc issued.
GetDealOk(c) ==
  /\ update[c].pc = "getDeal"
  /\ LET data == withDealContact(update[c].quotationData,
                                 getDealById(update[c].quotationData.leadId[1]))
     IN update' = [update EXCEPT ![c].pc = "updateDoc",
                                 ![c].quotationData = data,
                                 ![c].updateData = updateData(data, now)]
  /\ UNCHANGED <<quotations, deals, now>>
  /\ UNCHANGED outsideUpdate

\* updateDoc resolves; it can only do so for an existing document.
UpdateDocOk(c) ==
  /\ update[c].pc = "updateDoc"
  /\ update[c].id \in 1..Len(quotations)
  /\ quotations' = [quotations EXCEPT ![update[c].id] = updateDoc(@, update[c].updateData)]
  /\ update' = [update EXCEPT ![c].pc = "getDoc"]
  /\ UNCHANGED <<deals, now>>
  /\ UNCHANGED outsideUpdate

\* getDoc resolves: { id: updatedDoc.id, ...updatedDoc.data() } is returned.
GetDocOk(c) ==
  /\ update[c].pc = "getDoc"
  /\ update' = [update EXCEPT ![c].pc = "returned",
                              ![c].result = <<WithId(update[c].id, quotations[update[c].id])>>]
  /\ UNCHANGED <<quotations, deals, now>>
  /\ UNCHANGED outsideUpdate

\* getDealById, updateDoc (no such document, or a store error) or getDoc
\* rejects: the catch block logs "Error updating quotation:" and rethrows.
UpdateReject(c) ==
  /\ update[c].pc \in {"getDeal", "updateDoc", "getDoc"}
  /\ update' = [update EXCEPT ![c].pc = "threw"]
  /\ UNCHANGED <<quotations, deals, now>>
  /\ UNCHANGED outsideUpdate

\* The caller has received the quotation or the error.
UpdateEnd(c) ==
  /\ update[c].pc \in {"returned", "threw"}
  /\ update' = [update EXCEPT ![c] = IdleUpdate]
  /\ UNCHANGED <<quotations, deals, now>>
  /\ UNCHANGED outsideUpdate

\* The store after createQuotation(DataLegacy) has returned at time 1: one
\* document, and the deal of lead L1 synchronised with it.
UpdateInit ==
  /\ RentIdle
  /\ quotations = <<newQuotation(DataLegacy, 1)>>
  /\ deals = [InitialDeals EXCEPT
                !["L1"] = Some(dealUpdate(@[1], newQuotation(DataLegacy, 1)))]
  /\ now = 1
  /\ call = [c \in Callers |-> IdleCall]
  /\ read = NoRead
  /\ ExtIdle

UpdateNext ==
  \/ \E c \in Callers : \E id \in 1..(Len(quotations) + 1) : \E data \in UpdateInputs :
       UpdateStart(c, id, data)
  \/ \E c \in Callers : GetDealOk(c)
  \/ \E c \in Callers : UpdateDocOk(c)
  \/ \E c \in Callers : GetDocOk(c)
  \/ \E c \in Callers : UpdateReject(c)
  \/ \E c \in Callers : UpdateEnd(c)
  \/ Tick

UpdateSpec == UpdateInit /\ [][UpdateNext]_vars

\* C11: the write of updateQuotation leaves the stored totalRent as it was
\* whenever the patch carries no totalRent, also when the patch changes
\* pricing inputs, and no step of updateQuotation writes a deal document.
C11_UpdateRecomputesNothing ==
  [][ /\ (update' # update) => (deals' = deals)
      /\ \A c \in Callers :
           (update[c].pc = "updateDoc" /\ update'[c].pc = "getDoc"
              /\ update[c].quotationData.totalRent = None) =>
             quotations'[update[c].id].totalRent = quotations[update[c].id].totalRent ]_vars

\* C11 witness: a patch without totalRent has changed the number of days of
\* a stored quotation, whose stored total is no longer the total of its
\* pricing inputs.
C11_Witness ==
  \E c \in Callers :
    /\ update[c].pc = "returned"
    /\ update[c].quotationData.totalRent = None
    /\ update[c].quotationData.numberOfDays # None
    /\ LET q == quotations[update[c].id] IN
         /\ q.numberOfDays = update[c].quotationData.numberOfDays
         /\ q.totalRent # Some(calculateTotalRent(q))
         /\ q.totalRent = newQuotation(DataLegacy, 1).totalRent

----------------------------------------------------------------------------
(* assistantService.sendMessage and the session cache                      *)

\* Bounds of the conversation.
MaxMessages == 3
MaxReloads == 1

GenericFailure == "Failed to get response from ASP Cranes Agent"

\* specificUserId || getUserId() || 'crm_user'
userIdOf(specificUserId, current) ==
  IF TruthyStr(specificUserId) THEN specificUserId[1]
  ELSE IF TruthyStr(current) THEN current[1] ELSE "crm_user"

\* The session ids the agent hands to a user: each user gets sessions of
\* their own.
SessionIdsOf(u) == {u \o "-s1", u \o "-s2"}

\* The replies of the agent endpoint to a request of user u: a failure
\* status with or without a body, and a success status with or without a
\* response and a session id.
AgentReplies(u) ==
  {[ok |-> FALSE, response |-> r, session_id |-> None] : r \in {None, Some("Hello")}}
    \cup {[ok |-> TRUE, response |-> r, session_id |-> sid] :
            r \in {None, Some("Hello")},
            sid \in {None} \cup {Some(x) : x \in SessionIdsOf(u)}}

\* sessionsObj, the object written as JSON: one entry per key of the Map.
sessionsObj(cache) == {<<u, cache[u][1]>> : u \in {v \in UserIds : cache[v] # None}}

\* Variant: nothing is read back from the stored item.
loadSessionIds_nothing(cache, item) == cache

\* _loadSessionIds(): every entry of the parsed item is set in the Map.
loadSessionIds(cache, item) ==
  IF item = None THEN cache
  ELSE [u \in UserIds |->
          IF \E e \in item[1] : e[1] = u
          THEN Some((CHOOSE e \in item[1] : e[1] = u)[2])
          ELSE cache[u]]

\* _initSessions(): load only into an empty Map.
initSessions(cache, item) ==
  IF \A u \in UserIds : cache[u] = None THEN loadSessionIds(cache, item) ELSE cache

\* Variant: the HTTP status is not looked at.
replyAccepted_anyStatus(reply) == TruthyStr(reply.response)

\* response.ok and data.response are both truthy.
replyAccepted(reply) == reply.ok /\ TruthyStr(reply.response)

\* Variant: the session id is stored under every key.
saveSession_everyUser(cache, userId, data) ==
  IF TruthyStr(data.session_id) THEN [u \in UserIds |-> data.session_id] ELSE cache

\* if (data.session_id) this._sessionIds.set(userId, data.session_id)
saveSession(cache, userId, data) ==
  IF TruthyStr(data.session_id) THEN [cache EXCEPT ![userId] = data.session_id] ELSE cache

\* sendMessage up to its first await: the cache is initialised, the user id
\* chosen and the user's message handed to addDoc.
SendStart(c, message, specificUserId, current) ==
  /\ send[c].pc = "idle"
  /\ sessionIds' = initSessions(sessionIds, localStorage)
  /\ send' = [send EXCEPT ![c] =
                [IdleSend EXCEPT !.pc = "logUser", !.message = message,
                                 !.userId = userIdOf(specificUserId, current)]]
  /\ UNCHANGED <<localStorage, assistantMessages, page, lastSession>>
  /\ UNCHANGED outsideChat

\* addDoc of the user's message resolves; the session id of the user is
\* looked up and the request sent.
LogUserOk(c) ==
  /\ send[c].pc = "logUser"
  /\ Len(assistantMessages) < MaxMessages
  /\ assistantMessages' = Append(assistantMessages,
        [role |-> "user", content |-> send[c].message, userId |-> send[c].userId,
         sessionId |-> None])
  /\ send' = [send EXCEPT ![c].pc = "fetch",
                          ![c].request = <<[message |-> send[c].message,
                                            user_id |-> send[c].userId,
                                            session_id |-> sessionIds[send[c].userId],
                                            crm_access |-> TRUE]>>]
  /\ UNCHANGED <<sessionIds, localStorage, page, lastSession>>
  /\ UNCHANGED outsideChat

\* The reply of the agent arrives.  A reply that is not accepted throws
\* inside the try block; an accepted one has its session id cached and
\* mirrored, and the assistant's message is handed to addDoc.
FetchReply(c, reply) ==
  /\ send[c].pc = "fetch"
  /\ IF replyAccepted(reply)
     THEN /\ sessionIds' = saveSession(sessionIds, send[c].userId, reply)
          /\ localStorage' = IF TruthyStr(reply.session_id)
                             THEN Some(sessionsObj(sessionIds'))
                             ELSE localStorage
          /\ send' = [send EXCEPT ![c].pc = "logAssistant", ![c].reply = <<reply>>]
     ELSE /\ send' = [send EXCEPT ![c].pc = "threw", ![c].reply = <<reply>>,
                                  ![c].error = Some(GenericFailure)]
          /\ UNCHANGED <<sessionIds, localStorage>>
  /\ lastSession' =
       IF reply.ok /\ reply.response # None /\ reply.session_id # None
       THEN [lastSession EXCEPT ![send[c].userId] =
               Some([session_id |-> reply.session_id[1], page |-> page])]
       ELSE lastSession
  /\ UNCHANGED <<assistantMessages, page>>
  /\ UNCHANGED outsideChat

\* addDoc of the assistant's message resolves and data.response is returned.
LogAssistantOk(c) ==
  /\ send[c].pc = "logAssistant"
  /\ Len(assistantMessages) < MaxMessages
  /\ assistantMessages' = Append(assistantMessages,
        [role |-> "assistant", content |-> send[c].reply[1].response[1],
         userId |-> send[c].userId, sessionId |-> send[c].reply[1].session_id])
  /\ send' = [send EXCEPT ![c].pc = "returned", ![c].result = send[c].reply[1].response]
  /\ UNCHANGED <<sessionIds, localStorage, page, lastSession>>
  /\ UNCHANGED outsideChat

\* addDoc or fetch rejects: the catch block logs and throws the generic
\* failure.
SendReject(c) ==
  /\ send[c].pc \in {"logUser", "fetch", "logAssistant"}
  /\ send' = [send EXCEPT ![c].pc = "threw", ![c].error = Some(GenericFailure)]
  /\ UNCHANGED <<sessionIds, localStorage, assistantMessages, page, lastSession>>
  /\ UNCHANGED outsideChat

\* The caller has received the response text or the error.
SendEnd(c) ==
  /\ send[c].pc \in {"returned", "threw"}
  /\ send' = [send EXCEPT ![c] = IdleSend]
  /\ UNCHANGED <<sessionIds, localStorage, assistantMessages, page, lastSession>>
  /\ UNCHANGED outsideChat

\* The page is reloaded: the module is initialised again with an empty Map,
\* the calls under way are gone, the browser's storage and the collection
\* stay.
Reload ==
  /\ page <= MaxReloads
  /\ page' = page + 1
  /\ sessionIds' = [u \in UserIds |-> None]
  /\ send' = [c \in Callers |-> IdleSend]
  /\ UNCHANGED <<localStorage, assistantMessages, lastSession>>
  /\ UNCHANGED outsideChat

ChatInit == RentIdle /\ StoreIdle /\ ExtIdle

ChatNext ==
  \/ \E c \in Callers : \E specificUserId \in {None, Some("A")} :
       \E current \in {None, Some("A")} : SendStart(c, "Hi", specificUserId, current)
  \/ \E c \in Callers : LogUserOk(c)
  \/ \E c \in Callers : \E reply \in AgentReplies(send[c].userId) : FetchReply(c, reply)
  \/ \E c \in Callers : LogAssistantOk(c)
  \/ \E c \in Callers : SendReject(c)
  \/ \E c \in Callers : SendEnd(c)
  \/ Reload

ChatSpec == ChatInit /\ [][ChatNext]_vars

\* C12: sendMessage returns the response text only for a reply with a
\* success status and a response field; for any other reply it throws the
\* generic failure, returns nothing and appends no message to the log; the
\* only step of a call that appends an assistant message is the one that
\* follows an accepted reply.
C12_TextOnlyOnSuccess ==
  [][ \A c \in Callers :
        /\ (send[c].pc # "returned" /\ send'[c].pc = "returned") =>
             /\ send[c].reply # <<>>
             /\ send[c].reply[1].ok
             /\ send[c].reply[1].response # None
             /\ send'[c].result = send[c].reply[1].response
        /\ (send[c].pc = "fetch" /\ send'[c].reply # <<>>
              /\ ~(send'[c].reply[1].ok /\ send'[c].reply[1].response # None)) =>
             /\ send'[c].pc = "threw"
             /\ send'[c].error = Some(GenericFailure)
             /\ send'[c].result = None
             /\ assistantMessages' = assistantMessages
        /\ (send[c].pc = "threw" /\ send'[c] # send[c]) =>
             /\ send'[c].pc = "idle"
             /\ assistantMessages' = assistantMessages
        /\ (send'[c] # send[c] /\ assistantMessages' # assistantMessages
              /\ assistantMessages'[Len(assistantMessages')].role = "assistant") =>
             /\ send[c].pc = "logAssistant"
             /\ send[c].reply[1].ok
             /\ send[c].reply[1].response # None ]_vars

\* C12 witness: a call has thrown after a reply with a failure status that
\* carried a response text; its user message is the last entry of the log.
C12_Witness ==
  \E c \in Callers :
    /\ send[c].pc = "threw"
    /\ send[c].reply = <<[ok |-> FALSE, response |-> Some("Hello"), session_id |-> None]>>
    /\ send[c].error = Some(GenericFailure)
    /\ assistantMessages # <<>>
    /\ assistantMessages[Len(assistantMessages)].role = "user"

\* C12 witness of the other side: a call has returned the response text.
C12_WitnessReturned ==
  \E c \in Callers :
    /\ send[c].pc = "returned"
    /\ send[c].result = Some("Hello")
    /\ assistantMessages[Len(assistantMessages)].role = "assistant"

\* C13: the request sendMessage sends for a user carries the session id of
\* the last successful reply received for that user, and none when no such
\* reply carried one; also on a page loaded after that reply was received.
C13_SessionContinuity ==
  [][ \A c \in Callers :
        (send[c].pc = "logUser" /\ send'[c].pc = "fetch") =>
          LET last == lastSession[send[c].userId]
              sent == send'[c].request[1].session_id
          IN IF last = None THEN sent = None ELSE sent = Some(last[1].session_id) ]_vars

\* C13 witness: a request in flight on the second page load carries the
\* session id received on the first.
C13_Witness ==
  \E c \in Callers :
    /\ page = 2
    /\ send[c].pc = "fetch"
    /\ lastSession[send[c].userId] # None
    /\ lastSession[send[c].userId][1].page = 1
    /\ send[c].request[1].session_id = Some(lastSession[send[c].userId][1].session_id)

\* C14: a session id handed out for one user is never sent in a request of
\* another user, nor stored under another user in the cache or its mirror.
C14_SessionIsolation ==
  /\ \A u \in UserIds : sessionIds[u] # None => sessionIds[u][1] \in SessionIdsOf(u)
  /\ localStorage # None => \A e \in localStorage[1] : e[2] \in SessionIdsOf(e[1])
  /\ \A c \in Callers :
       (send[c].request # <<>> /\ send[c].request[1].session_id # None) =>
         send[c].request[1].session_id[1] \in SessionIdsOf(send[c].request[1].user_id)

\* C14 witness: two calls for different users overlap; the request of one
\* carries the session of its user while the other has just received a
\* session of its own, and both sessions are cached and mirrored.
C14_Witness ==
  \E c, d \in Callers :
    /\ send[c].pc = "fetch" /\ send[d].pc = "logAssistant"
    /\ send[c].userId # send[d].userId
    /\ send[c].request[1].session_id # None
    /\ send[d].reply[1].session_id # None
    /\ sessionIds[send[d].userId] = send[d].reply[1].session_id
    /\ localStorage # None
    /\ Cardinality(localStorage[1]) = 2

----------------------------------------------------------------------------
(* AIAssistantWidget: the current copy ("crm") and the older one ("legacy") *)

\* Bounds of the widget.
MaxChat == 2
MaxLoads == 2
MaxInFlight == 2

Welcome == [role |-> "assistant", content |-> "Hello! How can I assist you?"]
Apology ==
  [role |-> "assistant", content |-> "Sorry, I encountered an error. Please try again."]
History == <<[role |-> "assistant", content |-> "Earlier answer"]>>

\* user?.id ? `asp-cranes-chat-messages-${user.id}` : 'asp-cranes-chat-messages'
userChatKey(user) ==
  IF TruthyStr(user) THEN "asp-cranes-chat-messages-" \o user[1]
  ELSE "asp-cranes-chat-messages"

RemoveAt(seq, i) == SubSeq(seq, 1, i - 1) \o SubSeq(seq, i + 1, Len(seq))

\* loadRecentMessages() up to its await.  The crm copy returns the stored
\* conversation at once when there is one; otherwise getRecentMessages is
\* awaited with isLoading set.
loadRecentMessages(copy, w) ==
  LET key == userChatKey(w.user) IN
  IF copy = "crm" /\ w.localStorage[key] # <<>>
  THEN [w EXCEPT !.messages = w.localStorage[key], !.isLoading = FALSE]
  ELSE [w EXCEPT !.isLoading = TRUE, !.loads = Append(@, key)]

\* clearChatHistory()
clearChatHistory(w) ==
  [w EXCEPT !.messages = <<>>,
            !.localStorage = [k \in ChatKeys |->
               IF k = "asp-cranes-chat-messages" \/ (TruthyStr(w.user) /\ k = userChatKey(w.user))
               THEN <<>> ELSE @[k]]]

\* The effects of the crm copy that run after a render: the conversation of
\* a signed-in user is saved when messages or user changed, and an open
\* widget without messages shows the welcome message.
afterRender(copy, old, w) ==
  IF copy # "crm" THEN w
  ELSE LET saved ==
             IF (w.messages # old.messages \/ w.user # old.user)
                  /\ w.messages # <<>> /\ TruthyStr(w.user)
             THEN [w EXCEPT !.localStorage[userChatKey(w.user)] = w.messages]
             ELSE w
       IN IF saved.isOpen /\ saved.mounted /\ saved.messages = <<>>
          THEN [saved EXCEPT !.messages = <<Welcome>>,
                             !.localStorage[userChatKey(saved.user)] = <<Welcome>>]
          ELSE saved

\* The effect on [user?.id] of the crm copy.
userEffect(w) ==
  IF TruthyStr(w.user) THEN loadRecentMessages("crm", w) ELSE clearChatHistory(w)

\* The component is mounted and its effects run.  The crm copy loads the
\* conversation and runs the user effect; the legacy copy loads when the
\* persisted isOpen is true, once in the mount effect and once in the effect
\* on [isOpen].
Mount(copy) ==
  /\ ~widget.mounted
  /\ LET w == [widget EXCEPT !.mounted = TRUE] IN
       widget' =
         IF copy = "crm"
         THEN LET w1 == afterRender(copy, w, loadRecentMessages(copy, w))
              IN afterRender(copy, w1, userEffect(w1))
         ELSE IF w.isOpen
              THEN loadRecentMessages(copy, loadRecentMessages(copy, w))
              ELSE w
  /\ UNCHANGED outsideWidget

\* toggleAssistant() / closeAssistant().  Opening the legacy copy without
\* messages loads the conversation.
Toggle(copy) ==
  /\ widget.mounted
  /\ Len(widget.loads) < MaxLoads
  /\ LET w == [widget EXCEPT !.isOpen = ~@] IN
       widget' =
         IF copy = "legacy" /\ w.isOpen /\ w.messages = <<>>
         THEN loadRecentMessages(copy, w)
         ELSE afterRender(copy, widget, w)
  /\ UNCHANGED outsideWidget

\* The auth store gets another user (login, logout); crm copy only.
SetUser(user) ==
  /\ widget.mounted
  /\ user # widget.user
  /\ Len(widget.loads) < MaxLoads
  /\ LET w1 == afterRender("crm", widget, [widget EXCEPT !.user = user])
     IN widget' = afterRender("crm", w1, userEffect(w1))
  /\ UNCHANGED outsideWidget

\* A pending getRecentMessages resolves with the stored history (it resolves
\* with [] on a store error) and loadRecentMessages finishes.
LoadDone(copy, i, recentMessages) ==
  /\ i \in 1..Len(widget.loads)
  /\ LET key == widget.loads[i]
         w == [widget EXCEPT !.loads = RemoveAt(@, i), !.isLoading = FALSE]
     IN widget' =
          IF copy = "legacy" THEN [w EXCEPT !.messages = recentMessages]
          ELSE IF recentMessages # <<>>
               THEN afterRender(copy, widget,
                      [w EXCEPT !.messages = recentMessages,
                                !.localStorage[key] = recentMessages])
               ELSE w
  /\ UNCHANGED outsideWidget

\* handleSubmit(e) up to its await: nothing happens for an empty input or
\* while isLoading; otherwise the user's message is shown, isLoading set and
\* sendMessage called.
Submit(copy, input) ==
  /\ widget.mounted
  /\ Len(widget.messages) < MaxChat
  /\ Len(widget.requests) < MaxInFlight
  /\ IF ~TruthyStr(Some(input)) \/ widget.isLoading
     THEN widget' = widget
     ELSE LET updatedMessages ==
                Append(widget.messages, [role |-> "user", content |-> input])
              key == userChatKey(widget.user)
              request == [input |-> input, updatedMessages |-> updatedMessages, key |-> key]
          IN widget' =
               IF copy = "legacy"
               THEN [widget EXCEPT !.messages = updatedMessages, !.isLoading = TRUE,
                                   !.requests = Append(@, request)]
               ELSE afterRender(copy, widget,
                      [widget EXCEPT !.messages = updatedMessages,
                                     !.localStorage[key] = updatedMessages,
                                     !.isLoading = TRUE,
                                     !.requests = Append(@, request)])
  /\ UNCHANGED outsideWidget

\* A pending sendMessage settles and handleSubmit finishes: with response
\* the text it resolved with, or None when it rejected.  The crm copy shows
\* the messages it had at the submit plus the answer, the legacy copy the
\* current messages plus the answer.
Settle(copy, i, response) ==
  /\ i \in 1..Len(widget.requests)
  /\ LET request == widget.requests[i]
         answer == IF response # None
                   THEN [role |-> "assistant", content |-> response[1]]
                   ELSE Apology
         w == [widget EXCEPT !.requests = RemoveAt(@, i), !.isLoading = FALSE,
                             !.settled = <<[input |-> request.input,
                                            rejected |-> response = None]>>]
     IN widget' =
          IF copy = "legacy" THEN [w EXCEPT !.messages = Append(@, answer)]
          ELSE afterRender(copy, widget,
                 [w EXCEPT !.messages = Append(request.updatedMessages, answer),
                           !.localStorage[request.key] =
                              Append(request.updatedMessages, answer)])
  /\ UNCHANGED outsideWidget

\* The crm copy starts closed, with or without a signed-in user and a
\* stored conversation.
WidgetInit ==
  /\ RentIdle /\ StoreIdle /\ UpdateIdle /\ ChatIdle /\ api = NoApi
  /\ \E user \in {None, Some("A")} : \E stored \in {<<>>, History} :
       widget = [NoWidget EXCEPT !.user = user,
                                 !.localStorage["asp-cranes-chat-messages-A"] = stored]

WidgetNext ==
  \/ Mount("crm")
  \/ Toggle("crm")
  \/ \E user \in {None, Some("A")} : SetUser(user)
  \/ \E i \in 1..MaxLoads : \E recent \in {<<>>, History} : LoadDone("crm", i, recent)
  \/ \E input \in {"", "Hi"} : Submit("crm", input)
  \/ \E i \in 1..MaxInFlight : \E response \in {None, Some("Hello")} :
       Settle("crm", i, response)

WidgetSpec == WidgetInit /\ [][WidgetNext]_vars

\* The legacy copy starts with the persisted isOpen.
LegacyInit ==
  /\ RentIdle /\ StoreIdle /\ UpdateIdle /\ ChatIdle /\ api = NoApi
  /\ \E open \in BOOLEAN : widget = [NoWidget EXCEPT !.isOpen = open]

LegacyNext ==
  \/ Mount("legacy")
  \/ Toggle("legacy")
  \/ \E i \in 1..MaxLoads : \E recent \in {<<>>, History} : LoadDone("legacy", i, recent)
  \/ \E input \in {"", "Hi"} : Submit("legacy", input)
  \/ \E i \in 1..MaxInFlight : \E response \in {None, Some("Hello")} :
       Settle("legacy", i, response)

LegacySpec == LegacyInit /\ [][LegacyNext]_vars

\* C15: at most one sendMessage of the widget is pending at any time, and
\* isLoading is true as long as one is pending.
C15_OneRequestInFlight ==
  /\ Len(widget.requests) <= 1
  /\ widget.requests # <<>> => widget.isLoading

\* C16: when the sendMessage of a submitted message rejects, the apology is
\* shown right after that user message and isLoading is false, so that the
\* next non-empty submit is accepted.
C16_ApologyAfterFailure ==
  [][ (Len(widget'.requests) < Len(widget.requests) /\ widget'.settled[1].rejected) =>
        LET n == Len(widget'.messages) IN
        /\ ~widget'.isLoading
        /\ n >= 2
        /\ widget'.messages[n] = Apology
        /\ widget'.messages[n - 1] =
             [role |-> "user", content |-> widget'.settled[1].input] ]_vars

----------------------------------------------------------------------------
(* The REST handlers: handleLeadSubmission, handleQuotationSubmission and  *)
(* handleAssistantRequest                                                  *)

\* Bound: documents written and requests forwarded, each.
MaxDocs == 2

Handlers == {"leads", "quotations", "assistant"}

\* requiredFields, in the order they are checked (the assistant handler
\* checks message only).
requiredFields(handler) ==
  IF handler = "leads" THEN <<"customerName", "equipmentNeeded", "contactInfo">>
  ELSE IF handler = "quotations" THEN <<"leadId", "equipmentDetails", "totalPrice">>
  ELSE <<"message">>

\* The request bodies: every required field absent or supplied, a supplied
\* price of 0 or 500, and optional fields absent or supplied.
Bodies(handler) ==
  IF handler = "leads"
  THEN {[customerName |-> a, equipmentNeeded |-> b, contactInfo |-> c,
         timestamp |-> None, status |-> st, source |-> None] :
          a \in {None, Some("Acme")}, b \in {None, Some("crane")},
          c \in {None, Some("98000")}, st \in {None, Some("hot")}}
  ELSE IF handler = "quotations"
  THEN {[leadId |-> a, equipmentDetails |-> b, totalPrice |-> c,
         createdAt |-> None, status |-> st] :
          a \in {None, Some("L1")}, b \in {None, Some("crane")},
          c \in {None, Some(0), Some(500)}, st \in {None, Some("sent")}}
  ELSE {[message |-> a, user_id |-> b, session_id |-> c] :
          a \in {None, Some("Hi")}, b \in {None, Some("U")}, c \in {None, Some("s1")}}

\* !body[field]
falsy(field, value) ==
  IF field \in {"totalPrice", "timestamp", "createdAt"} THEN ~TruthyNum(value)
  ELSE ~TruthyStr(value)

\* Variant: the last required field is not checked.
firstMissing_butLast(handler, body) ==
  LET req == requiredFields(handler)
      bad == {i \in 1..(Len(req) - 1) : falsy(req[i], body[req[i]])}
  IN IF bad = {} THEN None ELSE Some(req[CHOOSE i \in bad : \A j \in bad : i <= j])

\* for (const field of requiredFields) if (!body[field]) return 400: the
\* first field that fails the check, if any.
firstMissing(handler, body) ==
  LET req == requiredFields(handler)
      bad == {i \in 1..Len(req) : falsy(req[i], body[req[i]])}
  IN IF bad = {} THEN None ELSE Some(req[CHOOSE i \in bad : \A j \in bad : i <= j])

\* The body of the 400 answers.
errorOf(handler, field) ==
  IF handler = "assistant" THEN "Message is required"
  ELSE "Missing required field: " \o field

\* The optional fields defaulted: the document handed to addDoc, or the
\* requestPayload handed to axios.post.
defaulted(handler, body, time) ==
  LET orElse(field, value) == IF falsy(field, body[field]) THEN Some(value) ELSE body[field]
  IN IF handler = "leads"
     THEN [body EXCEPT !.timestamp = orElse("timestamp", time),
                       !.status = orElse("status", "new"),
                       !.source = orElse("source", "AI Assistant")]
     ELSE IF handler = "quotations"
     THEN [body EXCEPT !.createdAt = orElse("createdAt", time),
                       !.status = orElse("status", "draft")]
     ELSE [body EXCEPT !.user_id = orElse("user_id", "api_user")]

\* A handler up to its await.  Without a body the two submission handlers
\* answer 400 and the assistant handler, whose destructuring throws, 500; a
\* required field that fails the check gives 400; otherwise the defaulted
\* document goes to addDoc, or the payload to the agent.
Handle(c, handler, body) ==
  /\ api.call[c].pc = "idle"
  /\ Len(api.leads) + Len(api.quotations) + Len(api.agent)
       + Cardinality({k \in Callers : api.call[k].pc = "await"}) < MaxDocs
  /\ LET answer(status, json) ==
           [IdleHandler EXCEPT !.pc = "responded", !.handler = handler, !.body = body,
                               !.status = Some(status), !.json = Some(json)]
     IN api' =
          IF body = None
          THEN [api EXCEPT !.call[c] =
                  IF handler = "leads" THEN answer(400, "Lead data is required")
                  ELSE IF handler = "quotations" THEN answer(400, "Quotation data is required")
                  ELSE answer(500, "Failed to process request")]
          ELSE IF firstMissing(handler, body[1]) # None
          THEN [api EXCEPT !.call[c] =
                  answer(400, errorOf(handler, firstMissing(handler, body[1])[1]))]
          ELSE LET doc == defaulted(handler, body[1], now)
                   pending == [IdleHandler EXCEPT !.pc = "await", !.handler = handler,
                                                  !.body = body, !.doc = <<doc>>]
               IN IF handler = "assistant"
                  THEN [api EXCEPT !.call[c] = pending, !.agent = Append(@, doc)]
                  ELSE [api EXCEPT !.call[c] = pending]
  /\ UNCHANGED outsideApi

\* addDoc resolves, the document is in its collection and 201 is answered;
\* or the agent answers and its reply is passed on.
Resolve(c) ==
  /\ api.call[c].pc = "await"
  /\ LET h == api.call[c] IN
       api' =
         IF h.handler = "leads"
         THEN [api EXCEPT !.leads = Append(@, h.doc[1]),
                          !.call[c].pc = "responded", !.call[c].status = Some(201),
                          !.call[c].json = Some("Lead created successfully")]
         ELSE IF h.handler = "quotations"
         THEN [api EXCEPT !.quotations = Append(@, h.doc[1]),
                          !.call[c].pc = "responded", !.call[c].status = Some(201),
                          !.call[c].json = Some("Quotation created successfully")]
         ELSE [api EXCEPT !.call[c].pc = "responded", !.call[c].status = Some(200),
                          !.call[c].json = Some("Hello")]
  /\ UNCHANGED outsideApi

\* addDoc or axios.post rejects: the catch block answers 500.
Reject(c) ==
  /\ api.call[c].pc = "await"
  /\ api' = [api EXCEPT !.call[c].pc = "responded", !.call[c].status = Some(500),
                        !.call[c].json =
                          Some(IF api.call[c].handler = "leads" THEN "Failed to create lead"
                               ELSE IF api.call[c].handler = "quotations"
                               THEN "Failed to create quotation"
                               ELSE "Failed to process request")]
  /\ UNCHANGED outsideApi

\* The answer has been sent.
Finish(c) ==
  /\ api.call[c].pc = "responded"
  /\ api' = [api EXCEPT !.call[c] = IdleHandler]
  /\ UNCHANGED outsideApi

ApiInit == RentIdle /\ StoreIdle /\ ExtIdle

ApiNext ==
  \/ \E c \in Callers : \E handler \in Handlers :
       \E body \in {None} \cup {Some(b) : b \in Bodies(handler)} : Handle(c, handler, body)
  \/ \E c \in Callers : Resolve(c)
  \/ \E c \in Callers : Reject(c)
  \/ \E c \in Callers : Finish(c)

ApiSpec == ApiInit /\ [][ApiNext]_vars

\* C17: a submission with a body is answered 400 exactly when one of the
\* required fields is absent from the body, and the message then names the
\* first absent field in the order of the list.
C17_RejectsExactlyMissing ==
  \A c \in Callers :
    LET h == api.call[c] IN
    (h.pc # "idle" /\ h.handler \in {"leads", "quotations"} /\ h.body # None) =>
      LET req == requiredFields(h.handler)
          absent == {i \in 1..Len(req) : h.body[1][req[i]] = None}
      IN /\ (h.status = Some(400)) <=> (absent # {})
         /\ (h.status = Some(400) /\ absent # {}) =>
              h.json = Some("Missing required field: "
                              \o req[CHOOSE i \in absent : \A j \in absent : i <= j])

\* C18: the step in which a handler answers 400 is the first step of its
\* call and changes no collection and sends nothing to the agent; and a call
\* that writes a document or sends a request has a body whose required
\* fields all pass the check, the document or payload carrying its defaults.
C18_NoPartialAcceptance ==
  [][ \A c \in Callers :
        LET h == api.call[c]
            g == api'.call[c]
            stores(a) == <<a.leads, a.quotations, a.agent>>
        IN /\ (g.status = Some(400) /\ h.status # Some(400)) =>
                /\ h.pc = "idle"
                /\ stores(api') = stores(api)
           /\ (g # h /\ stores(api') # stores(api)) =>
                /\ g.body # None
                /\ \A i \in 1..Len(requiredFields(g.handler)) :
                     ~falsy(requiredFields(g.handler)[i], g.body[1][requiredFields(g.handler)[i]])
                /\ g.handler = "leads" =>
                     LET d == api'.leads[Len(api'.leads)] IN
                     d.timestamp # None /\ d.status # None /\ d.source # None
                /\ g.handler = "quotations" =>
                     LET d == api'.quotations[Len(api'.quotations)] IN
                     d.createdAt # None /\ d.status # None
                /\ g.handler = "assistant" =>
                     api'.agent[Len(api'.agent)].user_id # None ]_vars

\* C18 witness: a lead with a customer name and equipment but no contact has
\* been answered 400 and nothing was written or forwarded.
C18_Witness ==
  \E c \in Callers :
    LET h == api.call[c] IN
    /\ h.pc = "responded"
    /\ h.handler = "leads"
    /\ h.status = Some(400)
    /\ h.body # None
    /\ h.body[1].customerName # None
    /\ h.body[1].contactInfo = None
    /\ api.leads = <<>> /\ api.quotations = <<>> /\ api.agent = <<>>

\* C18 witness of the other side: a document with defaulted fields has been
\* written and a request forwarded.
C18_WitnessAccepted ==
  /\ api.leads # <<>>
  /\ api.leads[1].source = Some("AI Assistant")
  /\ api.agent # <<>>
  /\ api.agent[1].user_id = Some("api_user")

----------------------------------------------------------------------------
(* Properties of the mobilisation cost                                     *)

\* The total of a record whose mobilisation cost is mob.
TotalWithMob(q, mob) ==
  LET sum == SumSeq(<<workingCost(q), foodAccomCost(q), mob, riskAdjustment(q),
                      usageLoadFactor(q), extraCharges(q)>>)
  IN IF TruthyBool(q.includeGst) THEN Add(sum, Mul(sum, Norm(18, 100))) ELSE sum

\* distance * perKm * 2 * (100 - relaxation) / 100
RelaxedDistanceCost(q, perKm) ==
  Div(Mul(Mul(Mul(distance(q), perKm), Num(2)), Sub(Num(100), mobRelaxationPercent(q))),
      Num(100))

\* C19: without machines the mobilisation cost that enters the total is the
\* round-trip distance cost reduced by the relaxation percentage plus the
\* whole mobDemob fee; 100 km at 10 per km with 50 percent and no fee costs
\* 1000, and with 100 percent the cost is exactly the fee.
C19_SingleMobCost ==
  (Done /\ ~hasMachines(quotationData) /\ TruthyNum(quotationData.numberOfDays)) =>
    LET q == quotationData
        expected == Add(RelaxedDistanceCost(q, runningCostPerKm(q.runningCostPerKm)),
                        trailerCost(q))
        WithMob(record, dist, perKm, relaxation, fee) ==
          [record EXCEPT !.siteDistance = Some(dist), !.runningCostPerKm = Some(perKm),
                         !.mobRelaxation = Some(relaxation), !.mobDemob = Some(fee)]
    IN /\ mobDemobCost(q) = expected
       /\ totalRent = TotalWithMob(q, expected)
       /\ mobDemobCost(WithMob(q, 100, 10, 50, 0)) = Num(1000)
       /\ \A fee \in {0, 50, 75} : mobDemobCost(WithMob(q, 100, 10, 100, fee)) = Num(fee)

\* C19 witness: a priced single-equipment quotation with a distance, a
\* running cost, a relaxation and a fee.
C19_Witness ==
  /\ Done
  /\ ~hasMachines(quotationData)
  /\ TruthyNum(quotationData.numberOfDays)
  /\ TruthyNum(quotationData.siteDistance)
  /\ TruthyNum(quotationData.runningCostPerKm)
  /\ TruthyNum(quotationData.mobRelaxation)
  /\ TruthyNum(quotationData.mobDemob)
  /\ ~IsNaN(totalRent)
  /\ totalRent # Zero

\* C19 witness of the full relaxation: the cost is the fee.
C19_WitnessFullRelaxation ==
  /\ Done
  /\ ~hasMachines(quotationData)
  /\ TruthyNum(quotationData.numberOfDays)
  /\ quotationData.mobRelaxation = Some(100)
  /\ TruthyNum(quotationData.siteDistance)
  /\ TruthyNum(quotationData.runningCostPerKm)
  /\ mobDemobCost(quotationData) = Num(50)

\* C20: with machines the mobilisation cost that enters the total is the
\* sum over the machines of quantity * (relaxed distance cost at the
\* machine's own running cost + mobDemob fee); a machine without
\* runningCostPerKm adds quantity * fee.
C20_MachineMobCost ==
  (Done /\ hasMachines(quotationData) /\ TruthyNum(quotationData.numberOfDays)
     /\ ~Throws(quotationData)) =>
    LET q == quotationData
        perMachine(m) ==
          IF TruthyNum(m.runningCostPerKm)
          THEN Mul(NumOf(m.quantity),
                   Add(RelaxedDistanceCost(q, Num(m.runningCostPerKm[1])), trailerCost(q)))
          ELSE Mul(NumOf(m.quantity), trailerCost(q))
        expected == SumSeq([i \in 1..Len(Machines(q)) |-> perMachine(Machines(q)[i][1])])
    IN /\ mobDemobCost(q) = expected
       /\ totalRent = TotalWithMob(q, expected)

\* C20 witness: a priced fleet of a machine with quantity 2 and a machine
\* without runningCostPerKm, with a distance, a relaxation and a fee.
C20_Witness ==
  /\ Done
  /\ hasMachines(quotationData)
  /\ ~Throws(quotationData)
  /\ TruthyNum(quotationData.numberOfDays)
  /\ TruthyNum(quotationData.siteDistance)
  /\ TruthyNum(quotationData.mobRelaxation)
  /\ TruthyNum(quotationData.mobDemob)
  /\ \E i, j \in 1..Len(Machines(quotationData)) :
       /\ Machines(quotationData)[i][1].quantity = Some(2)
       /\ TruthyNum(Machines(quotationData)[i][1].runningCostPerKm)
       /\ Machines(quotationData)[j][1].runningCostPerKm = None
  /\ ~IsNaN(totalRent)
  /\ totalRent # Zero

----------------------------------------------------------------------------
(* Properties of the risk, usage and working components                    *)

\* The form of the pricing specification with one more working time, 12
\* hours, which is not a power of two: a division by it is not exact in
\* binary floating point.
PricingNext ==
  \/ \E f \in DOMAIN FieldValues : \E v \in FieldValues[f] : SetField(f, v)
  \/ SetField("workingHours", Some(12))
  \/ \E m \in MachineChoices : AddMachine(m)
  \/ Calculate

PricingSpec == RentInit /\ [][PricingNext]_vars

\* The total of a record from its six components.
TotalOf(q, working, food, mob, risk, usage, extra) ==
  LET sum == SumSeq(<<working, food, mob, risk, usage, extra>>)
  IN IF TruthyBool(q.includeGst) THEN Add(sum, Mul(sum, Norm(18, 100))) ELSE sum

\* The rate the percentages apply to: the tier rate of the legacy equipment,
\* or the machines' rates times their quantities.
BaseRateOf(q) ==
  IF hasMachines(q)
  THEN SumSeq([i \in 1..Len(Machines(q)) |->
         Mul(NumOf(Machines(q)[i][1].baseRate), NumOf(Machines(q)[i][1].quantity))])
  ELSE NumOf(q.selectedEquipment[1].baseRates[1][q.orderType[1]])

\* The record is priced from a rate: machines without a null entry, or a
\* legacy equipment with rates and an order type.
HasBaseRate(q) ==
  \/ hasMachines(q) /\ ~Throws(q)
  \/ ~hasMachines(q) /\ hasBaseRates(q) /\ q.orderType # None

\* Values used to vary the duration inputs.
DurationDays == {Some(1), Some(10), Some(26), Some(30)}
DurationHours == {None, Some(4), Some(12)}
DurationShifts == {None, Some("single"), Some("double")}

\* C21: the risk adjustment that enters the total is baseRate * 5% for
\* riskFactor low, 10% for medium and 15% for high, on the tier rate in
\* single mode and on the sum of baseRate * quantity with machines, and it
\* is the same for every numberOfDays, workingHours and shift.
C21_RiskAdjustment ==
  (Done /\ TruthyNum(quotationData.numberOfDays) /\ HasBaseRate(quotationData)
     /\ quotationData.riskFactor \in {Some("low"), Some("medium"), Some("high")}) =>
    LET q == quotationData
        p == CASE q.riskFactor = Some("low") -> Norm(5, 100)
               [] q.riskFactor = Some("medium") -> Norm(10, 100)
               [] q.riskFactor = Some("high") -> Norm(15, 100)
        expected == Mul(BaseRateOf(q), p)
    IN /\ riskAdjustment(q) = expected
       /\ totalRent = TotalOf(q, workingCost(q), foodAccomCost(q), mobDemobCost(q),
                              expected, usageLoadFactor(q), extraCharges(q))
       /\ \A d \in DurationDays, h \in DurationHours, s \in DurationShifts :
            riskAdjustment([q EXCEPT !.numberOfDays = d, !.workingHours = h,
                                     !.shift = s]) = expected

\* C21 witness: a priced quotation of medium risk.
C21_Witness ==
  /\ Done
  /\ TruthyNum(quotationData.numberOfDays)
  /\ HasBaseRate(quotationData)
  /\ ~hasMachines(quotationData)
  /\ quotationData.riskFactor = Some("medium")
  /\ ~IsNaN(totalRent)
  /\ riskAdjustment(quotationData) # Zero

\* C21 witness with machines: a priced fleet of high risk holding a machine
\* of quantity 2.
C21_WitnessMachines ==
  /\ Done
  /\ TruthyNum(quotationData.numberOfDays)
  /\ hasMachines(quotationData) /\ ~Throws(quotationData)
  /\ \E i \in 1..Len(Machines(quotationData)) :
       Machines(quotationData)[i][1].quantity = Some(2)
  /\ quotationData.riskFactor = Some("high")
  /\ ~IsNaN(totalRent)
  /\ riskAdjustment(quotationData) # Zero

\* C22: the usage load that enters the total is baseRate * 10% for usage
\* heavy and 5% for usage normal, summed over baseRate * quantity of the
\* machines when there are machines and taken once on the tier rate
\* otherwise.
C22_UsageLoad ==
  (Done /\ TruthyNum(quotationData.numberOfDays) /\ HasBaseRate(quotationData)
     /\ quotationData.usage \in {Some("normal"), Some("heavy")}) =>
    LET q == quotationData
        u == IF q.usage = Some("heavy") THEN Norm(10, 100) ELSE Norm(5, 100)
        expected == Mul(BaseRateOf(q), u)
    IN /\ usageLoadFactor(q) = expected
       /\ totalRent = TotalOf(q, workingCost(q), foodAccomCost(q), mobDemobCost(q),
                              riskAdjustment(q), expected, extraCharges(q))

\* C22 witness: a priced fleet of heavy usage holding a machine of
\* quantity 2.
C22_Witness ==
  /\ Done
  /\ TruthyNum(quotationData.numberOfDays)
  /\ hasMachines(quotationData) /\ ~Throws(quotationData)
  /\ \E i \in 1..Len(Machines(quotationData)) :
       Machines(quotationData)[i][1].quantity = Some(2)
  /\ quotationData.usage = Some("heavy")
  /\ ~IsNaN(totalRent)
  /\ usageLoadFactor(quotationData) # Zero

\* C22 witness in single mode: a priced legacy quotation of normal usage.
C22_WitnessSingle ==
  /\ Done
  /\ TruthyNum(quotationData.numberOfDays)
  /\ ~hasMachines(quotationData) /\ HasBaseRate(quotationData)
  /\ quotationData.usage = Some("normal")
  /\ ~IsNaN(totalRent)
  /\ usageLoadFactor(quotationData) # Zero

\* C23: in daily billing (0 < numberOfDays <= 25) the working cost that
\* enters the total is baseRate * workingHours * numberOfDays *
\* shiftMultiplier (2 for shift double, 1 otherwise); with machines it is the
\* sum of that product times the quantity over the machines.
C23_DailyWorkingCost ==
  (Done /\ TruthyNum(quotationData.numberOfDays) /\ quotationData.numberOfDays[1] <= 25
     /\ HasBaseRate(quotationData)) =>
    LET q == quotationData
        hours == IF TruthyNum(q.workingHours) THEN q.workingHours[1] ELSE 8
        mult == IF q.shift = Some("double") THEN 2 ELSE 1
        daily(rate) == Mul(rate, Num(hours * q.numberOfDays[1] * mult))
        expected ==
          IF hasMachines(q)
          THEN SumSeq([i \in 1..Len(Machines(q)) |->
                 Mul(daily(NumOf(Machines(q)[i][1].baseRate)),
                     NumOf(Machines(q)[i][1].quantity))])
          ELSE daily(BaseRateOf(q))
    IN /\ workingCost(q) = expected
       /\ totalRent = TotalOf(q, expected, foodAccomCost(q), mobDemobCost(q),
                              riskAdjustment(q), usageLoadFactor(q), extraCharges(q))

\* C23 witness: a priced daily fleet on double shift holding a machine of
\* quantity 2.
C23_Witness ==
  /\ Done
  /\ TruthyNum(quotationData.numberOfDays) /\ quotationData.numberOfDays[1] <= 25
  /\ hasMachines(quotationData) /\ ~Throws(quotationData)
  /\ \E i \in 1..Len(Machines(quotationData)) :
       Machines(quotationData)[i][1].quantity = Some(2)
  /\ quotationData.shift = Some("double")
  /\ ~IsNaN(totalRent)
  /\ workingCost(quotationData) # Zero

\* C23 witness in single mode: a priced daily legacy quotation on single
\* shift with its own working hours.
C23_WitnessSingle ==
  /\ Done
  /\ TruthyNum(quotationData.numberOfDays) /\ quotationData.numberOfDays[1] <= 25
  /\ ~hasMachines(quotationData) /\ HasBaseRate(quotationData)
  /\ TruthyNum(quotationData.workingHours)
  /\ quotationData.shift # Some("double")
  /\ ~IsNaN(totalRent)
  /\ workingCost(quotationData) # Zero

----------------------------------------------------------------------------
(* The monthly working cost in IEEE-754 binary64                           *)
(*                                                                         *)
(* JavaScript numbers are binary64 values.  A positive finite one is       *)
(* <<m, e>>: m is its 53-bit significand, most significant bit first and   *)
(* equal to 1, and its value is m * 2^e.  Division and multiplication by   *)
(* a small positive integer round to nearest, ties to even, as the         *)
(* JavaScript operators / and * do.                                        *)

Precision == 53

\* The binary digits of a natural number below 2^30, most significant
\* first.
BitsOf(n) ==
  LET width == CHOOSE w \in 0..30 : 2^w > n /\ (w = 0 \/ 2^(w - 1) <= n)
  IN [i \in 1..width |-> (n \div 2^(width - i)) % 2]

Zeros(n) == [i \in 1..n |-> 0]

\* b without its leading zeros.
StripZeros(b) ==
  IF \A i \in 1..Len(b) : b[i] = 0 THEN <<>>
  ELSE LET first == CHOOSE i \in 1..Len(b) : b[i] = 1 /\ \A j \in 1..(i - 1) : b[j] = 0
       IN SubSeq(b, first, Len(b))

\* b + 1 on binary digits.
Increment(b) ==
  IF \A i \in 1..Len(b) : b[i] = 1 THEN <<1>> \o Zeros(Len(b))
  ELSE LET last == CHOOSE i \in 1..Len(b) : b[i] = 0 /\ \A j \in (i + 1)..Len(b) : b[j] = 1
       IN [i \in 1..Len(b) |-> IF i < last THEN b[i] ELSE IF i = last THEN 1 ELSE 0]

\* The binary64 value nearest to b * 2^e (+ a non-zero tail when sticky),
\* for digits b with a leading 1; ties go to the even significand.
RoundBits(b, e, sticky) ==
  IF Len(b) <= Precision
  THEN <<b \o Zeros(Precision - Len(b)), e - (Precision - Len(b))>>
  ELSE LET kept == SubSeq(b, 1, Precision)
           tail == sticky \/ \E i \in (Precision + 2)..Len(b) : b[i] = 1
           up == b[Precision + 1] = 1 /\ (tail \/ kept[Precision] = 1)
           r == IF up THEN Increment(kept) ELSE kept
           e1 == e + Len(b) - Precision
       IN IF Len(r) > Precision THEN <<SubSeq(r, 1, Precision), e1 + 1>> ELSE <<r, e1>>

\* Number(n) for a positive integer n.
F64(n) == RoundBits(BitsOf(n), 0, FALSE)

\* Long multiplication and division work on limbs: groups of 12 binary
\* digits, numbers below 4096.  The digits b as limbs, most significant first:
LimbsOf(b) ==
  LET n == (Len(b) + 11) \div 12
      p == Zeros(n * 12 - Len(b)) \o b
  IN [i \in 1..n |->
        LET at(j) == p[(i - 1) * 12 + j]
        IN 2048 * at(1) + 1024 * at(2) + 512 * at(3) + 256 * at(4) + 128 * at(5)
           + 64 * at(6) + 32 * at(7) + 16 * at(8) + 8 * at(9) + 4 * at(10)
           + 2 * at(11) + at(12)]

\* The binary digits of a sequence of limbs.
BitsOfLimbs(l) ==
  [i \in 1..(Len(l) * 12) |-> (l[(i - 1) \div 12 + 1] \div 2^(11 - ((i - 1) % 12))) % 2]

\* l * k + carry, worked from the least significant limb; the carry out of
\* the most significant limb becomes the first limb.
RECURSIVE MulLimbs(_, _, _)
MulLimbs(l, k, carry) ==
  IF l = <<>> THEN <<carry>>
  ELSE LET d == l[Len(l)] * k + carry
       IN Append(MulLimbs(SubSeq(l, 1, Len(l) - 1), k, d \div 4096), d % 4096)

\* The quotient of (r, l) by k, and the remainder.
RECURSIVE DivLimbs(_, _, _)
DivLimbs(l, k, r) ==
  IF l = <<>> THEN <<<<>>, r>>
  ELSE LET d == r * 4096 + l[1]
           rest == DivLimbs(Tail(l), k, d % k)
       IN <<<<d \div k>> \o rest[1], rest[2]>>

\* x * k for a positive integer k < 1024.
MulInt(x, k) ==
  RoundBits(StripZeros(BitsOfLimbs(MulLimbs(LimbsOf(x[1]), k, 0))), x[2], FALSE)

\* x / k for a positive integer k < 1024: the dividend is extended by 12
\* digits, so the quotient has its 53 digits, the rounding digit and more.
DivInt(x, k) ==
  LET d == DivLimbs(LimbsOf(x[1] \o Zeros(12)), k, 0)
  IN RoundBits(StripZeros(BitsOfLimbs(d[1])), x[2] - 12, d[2] # 0)

\* The working cost of one positive integer rate as the code computes it:
\* (rate / 26) / workingHours * workingHours * effectiveDays * shiftMultiplier
\* in monthly billing, rate * workingHours * effectiveDays * shiftMultiplier
\* otherwise, each operator rounding its result.
rateCost64(q, rate) ==
  LET hours == IF TruthyNum(q.workingHours) THEN q.workingHours[1] ELSE DefaultWorkingHours
      mult == IF q.shift = Some("double") THEN 2 ELSE 1
  IN IF isMonthly(q)
     THEN LET hourlyRate == DivInt(DivInt(F64(rate), MonthDays), hours)
          IN MulInt(MulInt(MulInt(hourlyRate, hours), MonthDays), mult)
     ELSE MulInt(MulInt(MulInt(F64(rate), hours), q.numberOfDays[1]), mult)

\* machineCost of a machine with a positive integer rate and quantity.
machineCost64(q, m) == MulInt(rateCost64(q, m.baseRate[1]), m.quantity[1])

\* The binary64 values next above and next below x.
Succ64(x) ==
  LET r == Increment(x[1])
  IN IF Len(r) > Precision THEN <<SubSeq(r, 1, Precision), x[2] + 1>> ELSE <<r, x[2]>>

Pred64(x) ==
  IF x[1] = <<1>> \o Zeros(Precision - 1)
  THEN <<[i \in 1..Precision |-> 1], x[2] - 1>>
  ELSE LET last == CHOOSE i \in 1..Precision :
                     x[1][i] = 1 /\ \A j \in (i + 1)..Precision : x[1][j] = 0
       IN <<[i \in 1..Precision |->
               IF i < last THEN x[1][i] ELSE IF i = last THEN 0 ELSE 1], x[2]>>

\* The binary64 values at most n units in the last place away from x.
RECURSIVE Around(_, _)
Around(x, n) ==
  IF n = 0 THEN {x}
  ELSE LET s == Around(x, n - 1)
       IN s \cup {Succ64(y) : y \in s} \cup {Pred64(y) : y \in s}

\* The rates of the record are present: every machine has a baseRate and a
\* quantity, or the order type selects a rate of the legacy equipment.
RatesPresent(q) ==
  IF hasMachines(q)
  THEN \A i \in 1..Len(Machines(q)) :
         /\ Machines(q)[i] # None
         /\ TruthyNum(Machines(q)[i][1].baseRate)
         /\ TruthyNum(Machines(q)[i][1].quantity)
  ELSE /\ hasBaseRates(q)
       /\ q.orderType # None
       /\ TruthyNum(q.selectedEquipment[1].baseRates[1][q.orderType[1]])

\* Day counts of monthly billing.
MonthlyDays == {Some(26), Some(27), Some(30), Some(365)}

\* C24 as stated: in monthly billing the working cost computed along
\* ((baseRate / 26) / workingHours) * workingHours * 26 * shiftMultiplier is
\* the number baseRate * shiftMultiplier (times the quantity for a machine),
\* whatever workingHours and the number of days are.
C24_MonthlyCancels ==
  (Done /\ TruthyNum(quotationData.numberOfDays) /\ isMonthly(quotationData)
     /\ RatesPresent(quotationData)) =>
    LET q == quotationData
        mult == IF q.shift = Some("double") THEN 2 ELSE 1
    IN \A h \in DurationHours \cup {q.workingHours}, d \in MonthlyDays \cup {q.numberOfDays} :
         LET q2 == [q EXCEPT !.workingHours = h, !.numberOfDays = d]
         IN IF hasMachines(q)
            THEN \A i \in 1..Len(Machines(q)) :
                   LET m == Machines(q)[i][1]
                   IN machineCost64(q2, m) = F64(m.baseRate[1] * mult * m.quantity[1])
            ELSE LET rate == q.selectedEquipment[1].baseRates[1][q.orderType[1]][1]
                 IN rateCost64(q2, rate) = F64(rate * mult)

\* C24 as amended: in monthly billing the working cost that enters the total
\* is baseRate * shiftMultiplier (times quantity, summed over the machines)
\* in exact arithmetic and the same for every number of days above 25; the
\* binary64 result of the code's path is within 5 units in the last place of
\* that number for every workingHours.
C24_MonthlyNearlyCancels ==
  (Done /\ TruthyNum(quotationData.numberOfDays) /\ isMonthly(quotationData)
     /\ RatesPresent(quotationData)) =>
    LET q == quotationData
        mult == IF q.shift = Some("double") THEN 2 ELSE 1
        expected == Mul(BaseRateOf(q), Num(mult))
    IN /\ workingCost(q) = expected
       /\ totalRent = TotalOf(q, expected, foodAccomCost(q), mobDemobCost(q),
                              riskAdjustment(q), usageLoadFactor(q), extraCharges(q))
       /\ \A h \in DurationHours \cup {q.workingHours}, d \in MonthlyDays :
            workingCost([q EXCEPT !.workingHours = h, !.numberOfDays = d]) = expected
       /\ \A h \in DurationHours \cup {q.workingHours} :
            LET q2 == [q EXCEPT !.workingHours = h]
            IN IF hasMachines(q)
               THEN \A i \in 1..Len(Machines(q)) :
                      LET m == Machines(q)[i][1]
                      IN machineCost64(q2, m)
                           \in Around(F64(m.baseRate[1] * mult * m.quantity[1]), 5)
               ELSE LET rate == q.selectedEquipment[1].baseRates[1][q.orderType[1]][1]
                    IN rateCost64(q2, rate) \in Around(F64(rate * mult), 5)

\* C24 witness: a priced monthly quotation whose binary64 working cost is
\* not the number baseRate * shiftMultiplier.
C24_Witness ==
  /\ Done
  /\ TruthyNum(quotationData.numberOfDays) /\ isMonthly(quotationData)
  /\ ~hasMachines(quotationData) /\ RatesPresent(quotationData)
  /\ LET rate == quotationData.selectedEquipment[1].baseRates[1][quotationData.orderType[1]][1]
         mult == IF quotationData.shift = Some("double") THEN 2 ELSE 1
     IN rateCost64(quotationData, rate) # F64(rate * mult)
  /\ workingCost(quotationData) # Zero
  /\ ~IsNaN(totalRent)

----------------------------------------------------------------------------
(* Properties of the food and accommodation cost and of absent fields      *)

\* Machine lists used to vary selectedMachines.
FleetChoices ==
  { None, Some(<<>>),
    Some(<<Some(Machine(Some("Crane A"), Some(20), Some(2), Some(3)))>>),
    Some(<<Some(Machine(Some("Crane A"), Some(20), Some(2), Some(3))),
           Some(Machine(Some("Crane B"), Some(13), Some(1), None))>>) }

\* C25: the food and accommodation cost that enters the total is
\* foodResources * 2500 + accomResources * 4000 in monthly billing and that
\* amount * numberOfDays / 26 in daily billing, with and without machines
\* and whatever the machines' quantities are.
C25_FoodAccomCost ==
  (Done /\ TruthyNum(quotationData.numberOfDays) /\ ~Throws(quotationData)) =>
    LET q == quotationData
        food == IF TruthyNum(q.foodResources) THEN q.foodResources[1] ELSE 0
        accom == IF TruthyNum(q.accomResources) THEN q.accomResources[1] ELSE 0
        monthly == food * 2500 + accom * 4000
        expected == IF q.numberOfDays[1] > 25 THEN Num(monthly)
                    ELSE Norm(monthly * q.numberOfDays[1], 26)
    IN /\ foodAccomCost(q) = expected
       /\ totalRent = TotalOf(q, workingCost(q), expected, mobDemobCost(q),
                              riskAdjustment(q), usageLoadFactor(q), extraCharges(q))
       /\ \A fleet \in FleetChoices :
            foodAccomCost([q EXCEPT !.selectedMachines = fleet]) = expected

\* C25 witness: a priced daily fleet holding a machine of quantity 2, with
\* food and accommodation resources.
C25_Witness ==
  /\ Done
  /\ TruthyNum(quotationData.numberOfDays) /\ ~isMonthly(quotationData)
  /\ hasMachines(quotationData) /\ ~Throws(quotationData)
  /\ \E i \in 1..Len(Machines(quotationData)) :
       Machines(quotationData)[i][1].quantity = Some(2)
  /\ TruthyNum(quotationData.foodResources)
  /\ TruthyNum(quotationData.accomResources)
  /\ ~IsNaN(totalRent)

\* C25 witness of monthly billing in single mode.
C25_WitnessMonthly ==
  /\ Done
  /\ TruthyNum(quotationData.numberOfDays) /\ isMonthly(quotationData)
  /\ ~hasMachines(quotationData)
  /\ TruthyNum(quotationData.foodResources)
  /\ TruthyNum(quotationData.accomResources)
  /\ ~IsNaN(totalRent)

\* The numeric fields that are read with "|| 0".
ZeroDefaultFields ==
  {"foodResources", "accomResources", "siteDistance", "mobDemob", "mobRelaxation",
   "extraCharge"}

\* C26: for numberOfDays > 0, leaving out any of foodResources,
\* accomResources, siteDistance, mobDemob, mobRelaxation or extraCharge gives
\* the total of the same record with 0 for it, and leaving out workingHours
\* gives the total of the same record with 8 working hours.
C26_AbsentDefaults ==
  (Done /\ TruthyNum(quotationData.numberOfDays)) =>
    LET q == quotationData
    IN /\ \A f \in ZeroDefaultFields :
            /\ calculateTotalRent([q EXCEPT ![f] = None])
                 = calculateTotalRent([q EXCEPT ![f] = Some(0)])
            /\ q[f] \in {None, Some(0)} =>
                 /\ totalRent = calculateTotalRent([q EXCEPT ![f] = None])
                 /\ totalRent = calculateTotalRent([q EXCEPT ![f] = Some(0)])
       /\ calculateTotalRent([q EXCEPT !.workingHours = None])
            = calculateTotalRent([q EXCEPT !.workingHours = Some(8)])
       /\ q.workingHours \in {None, Some(8)} =>
            /\ totalRent = calculateTotalRent([q EXCEPT !.workingHours = None])
            /\ totalRent = calculateTotalRent([q EXCEPT !.workingHours = Some(8)])

\* C26 witness: a daily quotation priced without workingHours and without
\* extraCharge, to a total that is a non-zero number.
C26_Witness ==
  /\ Done
  /\ TruthyNum(quotationData.numberOfDays) /\ ~isMonthly(quotationData)
  /\ quotationData.workingHours = None
  /\ quotationData.extraCharge = None
  /\ ~IsNaN(totalRent)
  /\ totalRent # Zero

\* C26 witness of an absent distance: priced without siteDistance where a
\* running cost and a relaxation are set.
C26_WitnessDistance ==
  /\ Done
  /\ TruthyNum(quotationData.numberOfDays)
  /\ quotationData.siteDistance = None
  /\ TruthyNum(quotationData.runningCostPerKm)
  /\ TruthyNum(quotationData.mobRelaxation)
  /\ ~IsNaN(totalRent)
  /\ totalRent # Zero

----------------------------------------------------------------------------
(* Order of the two writes of createQuotation                              *)

\* The patches updateQuotation is called with next to createQuotation: the
\* one that carries a totalRent and the one that names lead L1.
LifecyclePatches ==
  {p \in UpdateInputs : p.totalRent # None \/ p.leadId = Some("L1")}

\* createQuotation for lead L1 by two callers, next to updateQuotation of
\* the first stored document by one caller.
LifecycleNext ==
  \/ \E c \in Callers : CreateStart(c, DataLegacy)
  \/ \E c \in Callers : AddDocOk(c)
  \/ \E c \in Callers : AddDocFail(c)
  \/ \E c \in Callers : UpdateDealOk(c)
  \/ \E c \in Callers : UpdateDealFail(c)
  \/ \E c \in Callers : CreateEnd(c)
  \/ \E data \in LifecyclePatches : quotations # <<>> /\ UpdateStart("c1", 1, data)
  \/ GetDealOk("c1")
  \/ UpdateDocOk("c1")
  \/ GetDocOk("c1")
  \/ UpdateReject("c1")
  \/ UpdateEnd("c1")
  \/ Tick

LifecycleSpec == Init /\ [][LifecycleNext]_vars

\* A step changes a deal only for a call whose quotation document is
\* already stored, and writes the total that document was stored with.
DealWrittenAfterQuotation ==
  (deals' # deals) =>
    \E c \in Callers :
      /\ call[c].pc = "updateDeal" /\ call'[c].pc = "returned"
      /\ call[c].docRef \in 1..Len(quotations)
      /\ quotations[call[c].docRef].createdAt = call[c].newQuotation.createdAt
      /\ deals'[call[c].data.leadId[1]][1].value = call[c].newQuotation.totalRent[1]

\* The step that stores the quotation document stores it with the computed
\* total and changes no deal.
QuotationStoredFirst ==
  \A c \in Callers :
    (call[c].pc = "addDoc" /\ call'[c].pc # "addDoc" /\ call'[c].pc # "threw") =>
      /\ quotations'[call'[c].docRef] = call[c].newQuotation
      /\ deals' = deals

\* A call whose quotation write failed changes no deal, then or later.
FailedWriteLeavesDeals ==
  \A c \in Callers :
    /\ (call[c].pc = "addDoc" /\ call'[c].pc = "threw") =>
         /\ deals' = deals
         /\ quotations' = quotations
    /\ (call[c].pc = "threw" /\ call[c].docRef = 0 /\ call'[c] # call[c]) =>
         /\ call'[c].pc = "idle"
         /\ deals' = deals

\* Every deal that is not as it was initially carries the totalRent of a
\* quotation document in the store.
DealsBackedByQuotations ==
  \A d \in DealIds :
    (deals[d] # None /\ deals[d] # InitialDeals[d]) =>
      \E i \in 1..Len(quotations) : quotations[i].totalRent = Some(deals[d][1].value)

\* Every deal that is not as it was initially was written for a quotation
\* document that is in the store: the one created at the deal's timestamp
\* for that lead.
DealsBackedByCreation ==
  \A d \in DealIds :
    (deals[d] # None /\ deals[d] # InitialDeals[d]) =>
      \E i \in 1..Len(quotations) : quotations[i].createdAt = Some(deals[d][1].updatedAt)

\* C27 as stated: in createQuotation the quotation write comes strictly
\* before the deal write, a failed quotation write leaves every deal
\* unchanged, and in every state a deal value set by createQuotation is the
\* totalRent of a quotation document in the store.
C27_QuotationBeforeDeal ==
  [][ /\ DealWrittenAfterQuotation
      /\ QuotationStoredFirst
      /\ FailedWriteLeavesDeals
      /\ DealsBackedByQuotations'
    ]_vars

\* C27 as amended: the quotation write comes strictly before the deal
\* write, a failed quotation write leaves every deal unchanged, and a deal
\* value set by createQuotation is the totalRent with which a quotation
\* document, still in the store, was stored.
C27_DealValueWasStored ==
  [][ /\ DealWrittenAfterQuotation
      /\ QuotationStoredFirst
      /\ FailedWriteLeavesDeals
      /\ DealsBackedByCreation'
    ]_vars

\* C27 witness: the deal of lead L1 carries the total createQuotation
\* stored, and updateQuotation has since overwritten the totalRent of every
\* stored quotation of that total.
C27_Witness ==
  /\ deals["L1"] # InitialDeals["L1"]
  /\ quotations # <<>>
  /\ \A i \in 1..Len(quotations) : quotations[i].totalRent # Some(deals["L1"][1].value)
  /\ \E i \in 1..Len(quotations) : quotations[i].createdAt = Some(deals["L1"][1].updatedAt)

\* C27 witness of the failure: the quotation write of a call for lead L1
\* failed and the deals are as they were initially.
C27_WitnessFailed ==
  /\ deals = InitialDeals
  /\ \E c \in Callers :
       /\ call[c].pc = "threw"
       /\ call[c].docRef = 0
       /\ call[c].data.leadId = Some("L1")

\* ---------------------------------------------------------------------
\* The session state over a failed sendMessage
\* ---------------------------------------------------------------------

\* One sendMessage at a time: the calls of caller "c1" and the reloads of
\* the page, so that what a call finds in the cache when it fails was put
\* there by the call itself or was there before it.
SingleChatNext ==
  \/ \E specificUserId \in {None, Some("A")} : \E current \in {None, Some("A")} :
       SendStart("c1", "Hi", specificUserId, current)
  \/ LogUserOk("c1")
  \/ \E reply \in AgentReplies(send["c1"].userId) : FetchReply("c1", reply)
  \/ LogAssistantOk("c1")
  \/ SendReject("c1")
  \/ SendEnd("c1")
  \/ Reload

SingleChatSpec == ChatInit /\ [][SingleChatNext]_vars

\* The session id the stored item holds for user u, if any.
MirrorEntry(item, u) ==
  IF item # None /\ \E e \in item[1] : e[1] = u
  THEN Some((CHOOSE e \in item[1] : e[1] = u)[2])
  ELSE None

\* C28 as stated: a failed sendMessage leaves the session state unchanged:
\* once a call has thrown, the cache and its mirror hold for the user of the
\* call the session id the request of the call carried.
C28_FailedCallKeepsSession ==
  (send["c1"].pc = "threw" /\ send["c1"].request # <<>>) =>
    /\ sessionIds[send["c1"].userId] = send["c1"].request[1].session_id
    /\ MirrorEntry(localStorage, send["c1"].userId) = send["c1"].request[1].session_id

\* C28 amended: a sendMessage that fails before it has an accepted reply
\* (failure status, no response field, a rejected fetch or a rejected write
\* of the user's message) leaves the cache and its mirror as they were; one
\* that fails in the write of the assistant's message had a reply with a
\* success status and a response field, and the cache and the mirror hold
\* for its user the session id of that reply when it carried one and the
\* previous one otherwise; no step of a call changes the entry of another
\* user, and the steps before the reply change nothing but the loading of
\* the mirror into an empty cache.
C28_SessionAfterFailure ==
  [][ LET c == "c1"
          u == send[c].userId
      IN /\ (send[c].pc # "threw" /\ send'[c].pc = "threw") =>
              /\ send[c].pc = "fetch" => (sessionIds' = sessionIds /\ localStorage' = localStorage)
              /\ send[c].pc = "logUser" => (sessionIds' = sessionIds /\ localStorage' = localStorage)
              /\ send[c].request # <<>> =>
                   LET prev == send[c].request[1].session_id
                       sid == send[c].reply[1].session_id
                       kept == IF send[c].pc = "logAssistant" /\ sid # None THEN sid ELSE prev
                   IN /\ sessionIds'[u] = kept
                      /\ MirrorEntry(localStorage', u) = kept
                      /\ send[c].pc = "logAssistant" =>
                           (send[c].reply[1].ok /\ send[c].reply[1].response # None)
         /\ (send[c].pc = "fetch" /\ send'[c].pc = "logAssistant") =>
              \A v \in UserIds \ {u} :
                /\ sessionIds'[v] = sessionIds[v]
                /\ MirrorEntry(localStorage', v) = MirrorEntry(localStorage, v)
         /\ (send[c].pc = "idle" /\ send'[c].pc = "logUser") =>
              /\ localStorage' = localStorage
              /\ initSessions(sessionIds', localStorage') = initSessions(sessionIds, localStorage)
         /\ (send[c].pc = "logUser" /\ send'[c].pc = "fetch") =>
              (sessionIds' = sessionIds /\ localStorage' = localStorage) ]_vars

\* C28 witness: a call whose request carried a session id has thrown on a
\* reply with a success status, a session id of its own and no response
\* field; the cache and the mirror still hold the session id of the request.
C28_Witness ==
  /\ send["c1"].pc = "threw"
  /\ send["c1"].request # <<>>
  /\ send["c1"].request[1].session_id # None
  /\ send["c1"].reply # <<>>
  /\ send["c1"].reply[1].ok
  /\ send["c1"].reply[1].response = None
  /\ send["c1"].reply[1].session_id # None
  /\ send["c1"].reply[1].session_id # send["c1"].request[1].session_id
  /\ sessionIds[send["c1"].userId] = send["c1"].request[1].session_id
  /\ MirrorEntry(localStorage, send["c1"].userId) = send["c1"].request[1].session_id

\* C28 witness of the other side: a call has thrown in the write of the
\* assistant's message, and the cache and the mirror hold the session id of
\* its reply, which is not the one its request carried.
C28_WitnessAfterReply ==
  /\ send["c1"].pc = "threw"
  /\ send["c1"].reply # <<>>
  /\ send["c1"].reply[1].ok
  /\ send["c1"].reply[1].response # None
  /\ send["c1"].reply[1].session_id # None
  /\ send["c1"].reply[1].session_id # send["c1"].request[1].session_id
  /\ sessionIds[send["c1"].userId] = send["c1"].reply[1].session_id
  /\ MirrorEntry(localStorage, send["c1"].userId) = send["c1"].reply[1].session_id

\* ---------------------------------------------------------------------
\* The conversation of the widget after a logout
\* ---------------------------------------------------------------------

\* The keys of the users' conversations: every key but the generic one.
UserChatKeys == ChatKeys \ {userChatKey(None)}

\* C29: once the user id has become absent the widget shows nothing of the
\* conversation of the user who logged out (its message list holds at most
\* the welcome message of an open widget) and the stored conversation under
\* that user's key is removed; as long as nobody is logged in it stays so:
\* no step stores anything under a user's key that was empty, and a request
\* submitted by the logged-out user that settles leaves the message list as
\* it is.
C29_LogoutClearsChat ==
  [][ (widget.mounted /\ ~TruthyStr(widget'.user)) =>
        /\ TruthyStr(widget.user) =>
             /\ widget'.messages \in {<<>>, <<Welcome>>}
             /\ widget'.localStorage[userChatKey(widget.user)] = <<>>
        /\ ~TruthyStr(widget.user) =>
             /\ \A k \in UserChatKeys :
                  widget.localStorage[k] = <<>> => widget'.localStorage[k] = <<>>
             /\ (/\ Len(widget'.requests) < Len(widget.requests)
                 /\ \A i \in 1..Len(widget.requests) :
                      widget.requests[i].key \in UserChatKeys) =>
                  widget'.messages = widget.messages ]_vars

\* ---------------------------------------------------------------------
\* The stored total and the record as read back
\* ---------------------------------------------------------------------

\* C30: for every quotation created by createQuotation and read by
\* getQuotationById, the returned totalRent is what calculateTotalRent gives
\* for the returned record: the defaults of the read path are the defaults
\* the pricing function applied when the total was computed.
C30_TotalMatchesReadBack ==
  (read.op = "getQuotationById" /\ read.result # <<>>) =>
    read.result[1].totalRent[1] = calculateTotalRent(read.result[1])

====
